---- MODULE Spec2Model ----
(***************************************************************************)
(* Model of the folder watcher: the debounced watch loop of                *)
(* FSNotifyWatcher.Watch and the CheckSizeAndFrame callback with its       *)
(* attribute extraction.                                                   *)
(*                                                                         *)
(* Time is counted in milliseconds.  Strings are sequences of atoms: an    *)
(* atom is a character (" ", "_", "x", ".", "/"), a run of digits or a     *)
(* word that the configured patterns treat as a unit.                      *)
(***************************************************************************)
EXTENDS Integers, Sequences, FiniteSets, TLC

(***************************************************************************)
(* Bounds of the model.                                                    *)
(***************************************************************************)
MaxEvents == 3
MaxTicks == 2
MaxErrors == 1
MaxCallbacks == 2

(***************************************************************************)
(* Program constants.                                                      *)
(***************************************************************************)
Second == 1000
CreateOp == 1
WriteOp == 2
RemoveOp == 4
RenameOp == 8
ChmodOp == 16

\* The debounce window of IsSameWriteEventAs and the retention of the purge.
DebounceWindow == Second
PurgeAge == 30 * Second

\* Amounts by which the clock advances in one step: half a second (two of
\* them make the debounce window exactly) and the retention of the purge.
Jumps == {Second \div 2, PurgeAge}

\* The raw events the notification layer emits: every kind of operation on
\* one path, a write and a remove on a second one.
Paths == {"p1", "p2"}
Ops == {CreateOp, WriteOp, RemoveOp, WriteOp + RemoveOp}
RawEvents ==
    {[Name |-> "p1", Op |-> op] : op \in Ops}
        \cup {[Name |-> "p2", Op |-> op] : op \in {WriteOp, RemoveOp}}

\* The callbacks a caller can register; Nil is the nil function value.
Nil == "nil"
CallbackIds == {"cb1", "cb2"}
CallbackArgs == {<<"cb1">>, <<"cb2">>, <<"cb1", "cb2">>, <<Nil>>, <<"cb1", Nil>>}

\* What a callback returns: cb1 returns nil, cb2 an error.
callbackErr(cb) == cb = "cb2"

VARIABLES
    pc,           \* position of the program: "idle", "select", "callback", "done"
    now,          \* the (monotonic) clock
    ticks,        \* number of clock advances so far
    emitted,      \* number of raw events emitted so far
    Events,       \* the raw event offered on w.Events (an unbuffered channel)
    eventsClosed, \* w.Events is closed
    Errors,       \* number of errors pending on w.Errors
    errorsSent,   \* number of errors sent so far
    errorsClosed, \* w.Errors is closed
    ctxDone,      \* ctx is cancelled
    callbacks,    \* w.callbacks
    addErr,       \* an AddCallbacks call returned an error
    eventLog,     \* Watch's eventLog: a map from path to the stored event
    newEvent,     \* the event being dispatched
    cbIdx,        \* index of the next callback to invoke for newEvent
    ret,          \* result of Watch: "none" while running, "nil" or "ctxErr"
    received,     \* history: the events Watch received, with its decisions
    calls,        \* history: the callback invocations
    sentAt,       \* history: the time at which each stamped raw event was emitted
    cfg,          \* the configuration in use: "yaml" or "edge"
    cbEvent,      \* the event handed to the CheckSizeAndFrame callback
    cbSink,       \* for each call of showAlert in turn, whether it returns an error
    cbPc,         \* position of the callback: "none", "called", "returned"
    cbOut,        \* what the callback did: alerts raised, error returned, attributes
    exFn,         \* the extraction called: "file", "folder" or "none"
    exPath,       \* its path argument
    exPats,       \* the name of its pattern list
    exSink,       \* whether showAlert returns an error
    exPc,         \* position of the extraction: "none", "called", "returned"
    exOut,        \* its result: attributes, error, alerts raised
    watcherCfg,   \* cfg.Watcher: the include and exclude lists
    wPc,          \* position of watch(): "start", "folders", "added", "failed"
    watchList,    \* the folders getFoldersToWatch returned
    added,        \* the folders added to the watcher
    setupErr      \* the error watch() returned before AddCallbacks, or "none"

watchVars == <<pc, now, ticks, emitted, Events, eventsClosed, Errors, errorsSent,
               errorsClosed, ctxDone, callbacks, addErr, eventLog, newEvent,
               cbIdx, ret, received, calls, sentAt>>

checkVars == <<cfg, cbEvent, cbSink, cbPc, cbOut>>

extractVars == <<exFn, exPath, exPats, exSink, exPc, exOut>>

setupVars == <<watcherCfg, wPc, watchList, added, setupErr>>

vars == <<watchVars, checkVars, extractVars, setupVars>>

(***************************************************************************)
(* Strings.  strings.TrimSpace, strings.ToLower, strings.TrimSuffix,       *)
(* strings.Join and fmt.Sprintf("%s %s") on sequences of atoms.            *)
(***************************************************************************)
Digits == {"2", "3", "4", "9", "11", "12", "14"}

Lower(a) ==
    CASE a = "FR" -> "fr"
      [] a = "X" -> "x"
      [] OTHER -> a

ToLower(s) == [i \in 1..Len(s) |-> Lower(s[i])]

IsSpace(a) == a = " "

RECURSIVE TrimLeft(_)
TrimLeft(s) == IF s # <<>> /\ IsSpace(Head(s)) THEN TrimLeft(Tail(s)) ELSE s

RECURSIVE TrimRight(_)
TrimRight(s) ==
    IF s # <<>> /\ IsSpace(s[Len(s)]) THEN TrimRight(SubSeq(s, 1, Len(s) - 1)) ELSE s

\* strings.TrimSpace without the trimming: the mutant of TrimSpace.
TrimSpace_Keep(s) == s

TrimSpace(s) == TrimRight(TrimLeft(s))

HasSuffix(s, suffix) ==
    Len(suffix) <= Len(s) /\ SubSeq(s, Len(s) - Len(suffix) + 1, Len(s)) = suffix

TrimSuffix(s, suffix) ==
    IF HasSuffix(s, suffix) THEN SubSeq(s, 1, Len(s) - Len(suffix)) ELSE s

RECURSIVE Join(_, _)
Join(elems, sep) ==
    IF elems = <<>> THEN <<>>
    ELSE IF Len(elems) = 1 THEN elems[1]
    ELSE elems[1] \o sep \o Join(Tail(elems), sep)

\* fmt.Sprintf("%s %s", a, b)
Sprintf2(a, b) == a \o <<" ">> \o b

(***************************************************************************)
(* path/filepath: Base, Dir and Ext of a path whose separator is "/".      *)
(* The paths of the notification layer are clean (no ".", ".." or doubled  *)
(* separators), so Dir has nothing to clean but the trailing separator.    *)
(***************************************************************************)
Separators(p) == {i \in 1..Len(p) : p[i] = "/"}

Max(S) == CHOOSE x \in S : \A y \in S : y <= x

RECURSIVE StripSeparators(_)
StripSeparators(p) ==
    IF p # <<>> /\ p[Len(p)] = "/" THEN StripSeparators(SubSeq(p, 1, Len(p) - 1)) ELSE p

Base(p) ==
    IF p = <<>> THEN <<".">>
    ELSE LET q == StripSeparators(p) IN
         IF q = <<>> THEN <<"/">>
         ELSE IF Separators(q) = {} THEN q
         ELSE SubSeq(q, Max(Separators(q)) + 1, Len(q))

Dir(p) ==
    IF Separators(p) = {} THEN <<".">>
    ELSE LET d == StripSeparators(SubSeq(p, 1, Max(Separators(p)))) IN
         IF d = <<>> THEN <<"/">> ELSE d

Ext(p) ==
    LET first == IF Separators(p) = {} THEN 1 ELSE Max(Separators(p)) + 1
        dots == {i \in first..Len(p) : p[i] = "."}
    IN  IF dots = {} THEN <<>> ELSE SubSeq(p, Max(dots), Len(p))

(***************************************************************************)
(* regexp: the patterns as syntax trees and the leftmost-first match with  *)
(* its submatches.  Match gives the ways re matches s from position i, the *)
(* preferred way first; each has the position after the match and the      *)
(* texts of the capture groups of re (<<>> for a group that took no part). *)
(***************************************************************************)
Lit(a) == [t |-> "lit", a |-> a]
Digit == [t |-> "digit"]
Not(a) == [t |-> "not", a |-> a]
AnyChar == [t |-> "any"]
Bol == [t |-> "bol"]
Eol == [t |-> "eol"]
Cat(rs) == [t |-> "cat", rs |-> rs]
Alt(rs) == [t |-> "alt", rs |-> rs]
Opt(r) == [t |-> "opt", r |-> r]
Star(r) == [t |-> "star", r |-> r]
Plus(r) == [t |-> "plus", r |-> r]
Grp(name, r) == [t |-> "grp", name |-> name, r |-> r]

RECURSIVE SubexpNamesOf(_)
RECURSIVE SubexpNamesOfAll(_)
SubexpNamesOfAll(rs) ==
    IF rs = <<>> THEN <<>> ELSE SubexpNamesOf(Head(rs)) \o SubexpNamesOfAll(Tail(rs))

SubexpNamesOf(re) ==
    CASE re.t = "grp" -> <<re.name>> \o SubexpNamesOf(re.r)
      [] re.t \in {"opt", "star", "plus"} -> SubexpNamesOf(re.r)
      [] re.t \in {"cat", "alt"} -> SubexpNamesOfAll(re.rs)
      [] OTHER -> <<>>

\* Regexp.SubexpNames: the names of the groups, the whole match first.
SubexpNames(re) == <<"">> \o SubexpNamesOf(re)

NumSubexp(re) == Len(SubexpNamesOf(re))

Blank(n) == [k \in 1..n |-> <<>>]

WithCaptures(before, results, after) ==
    [n \in 1..Len(results) |->
        [e |-> results[n].e, c |-> before \o results[n].c \o after]]

RECURSIVE Match(_, _, _)
RECURSIVE MatchCat(_, _, _, _)
RECURSIVE MatchCatRest(_, _, _, _, _)
RECURSIVE MatchAlt(_, _, _, _)
RECURSIVE MatchStar(_, _, _)
RECURSIVE MatchStarRest(_, _, _, _, _)

MatchCat(rs, k, s, i) ==
    IF k > Len(rs) THEN <<[e |-> i, c |-> <<>>]>>
    ELSE MatchCatRest(rs, k, s, Match(rs[k], s, i), 1)

MatchCatRest(rs, k, s, heads, h) ==
    IF h > Len(heads) THEN <<>>
    ELSE WithCaptures(heads[h].c, MatchCat(rs, k + 1, s, heads[h].e), <<>>)
             \o MatchCatRest(rs, k, s, heads, h + 1)

MatchAlt(rs, k, s, i) ==
    IF k > Len(rs) THEN <<>>
    ELSE WithCaptures(Blank(Len(SubexpNamesOfAll(SubSeq(rs, 1, k - 1)))),
                      Match(rs[k], s, i),
                      Blank(Len(SubexpNamesOfAll(SubSeq(rs, k + 1, Len(rs))))))
             \o MatchAlt(rs, k + 1, s, i)

\* Greedy repetition: the captures are those of the last turn.
MatchStar(r, s, i) ==
    MatchStarRest(r, s, i, Match(r, s, i), 1) \o <<[e |-> i, c |-> Blank(NumSubexp(r))]>>

MatchStarRest(r, s, i, heads, h) ==
    IF h > Len(heads) THEN <<>>
    ELSE (IF heads[h].e > i
             THEN LET more == MatchStar(r, s, heads[h].e) IN
                  [n \in 1..Len(more) |->
                      [e |-> more[n].e,
                       c |-> IF more[n].e > heads[h].e THEN more[n].c ELSE heads[h].c]]
             ELSE <<>>)
         \o MatchStarRest(r, s, i, heads, h + 1)

Match(re, s, i) ==
    LET one(ok) == IF i <= Len(s) /\ ok THEN <<[e |-> i + 1, c |-> <<>>]>> ELSE <<>> IN
    CASE re.t = "lit" -> one(i <= Len(s) /\ s[i] = re.a)
      [] re.t = "digit" -> one(i <= Len(s) /\ s[i] \in Digits)
      [] re.t = "not" -> one(i <= Len(s) /\ s[i] # re.a)
      [] re.t = "any" -> one(TRUE)
      [] re.t = "bol" -> IF i = 1 THEN <<[e |-> i, c |-> <<>>]>> ELSE <<>>
      [] re.t = "eol" -> IF i = Len(s) + 1 THEN <<[e |-> i, c |-> <<>>]>> ELSE <<>>
      [] re.t = "cat" -> MatchCat(re.rs, 1, s, i)
      [] re.t = "alt" -> MatchAlt(re.rs, 1, s, i)
      [] re.t = "opt" -> Match(re.r, s, i) \o <<[e |-> i, c |-> Blank(NumSubexp(re.r))]>>
      [] re.t = "star" -> MatchStar(re.r, s, i)
      [] re.t = "plus" -> MatchStarRest(re.r, s, i - 1, Match(re.r, s, i), 1)
      [] re.t = "grp" ->
            LET inner == Match(re.r, s, i) IN
            [n \in 1..Len(inner) |->
                [e |-> inner[n].e, c |-> <<SubSeq(s, i, inner[n].e - 1)>> \o inner[n].c]]

\* Regexp.FindStringSubmatch: the leftmost match, the whole match first and
\* then the text of every group; <<>> stands for nil (no match).
RECURSIVE FindFrom(_, _, _)
FindFrom(re, s, i) ==
    IF i > Len(s) + 1 THEN <<>>
    ELSE LET m == Match(re, s, i) IN
         IF m # <<>> THEN <<SubSeq(s, i, m[1].e - 1)>> \o m[1].c
         ELSE FindFrom(re, s, i + 1)

FindStringSubmatch(re, s) == FindFrom(re, s, 1)

\* "(" + strings.Join(patterns, ")|(") + ")" compiled: the alternation of
\* the patterns, each in a group of its own; "()" for no pattern at all.
JoinPatterns(patterns) ==
    IF patterns = <<>> THEN Grp("", Cat(<<>>))
    ELSE IF Len(patterns) = 1 THEN Grp("", patterns[1])
    ELSE Alt([k \in 1..Len(patterns) |-> Grp("", patterns[k])])

(***************************************************************************)
(* The configuration of watcher.yaml: the patterns of the folder names and *)
(* of the file names and the mapping from the abbreviation of a file name  *)
(* to the forms of the frame type in a folder name.                        *)
(***************************************************************************)
attrFrameSize == "frame_size"
attrFrameType == "frame_type"

\* \d+x\d+
SizeToken == Cat(<<Plus(Digit), Lit("x"), Plus(Digit)>>)

\* (floating )?((white|gray|black|gold) )?framed
FramedPhrase ==
    Cat(<<Opt(Grp("", Cat(<<Lit("floating"), Lit(" ")>>))),
          Opt(Grp("", Cat(<<Grp("", Alt(<<Lit("white"), Lit("gray"), Lit("black"),
                                          Lit("gold")>>)),
                            Lit(" ")>>))),
          Lit("framed")>>)

\* ( \d+pc)?
PieceCount == Opt(Grp("", Cat(<<Lit(" "), Plus(Digit), Lit("pc")>>)))

\* (wood|wood horz|wood vert|wood crx|framed)
WoodPhrase ==
    Grp("", Alt(<<Lit("wood"),
                  Cat(<<Lit("wood"), Lit(" "), Lit("horz")>>),
                  Cat(<<Lit("wood"), Lit(" "), Lit("vert")>>),
                  Cat(<<Lit("wood"), Lit(" "), Lit("crx")>>),
                  Lit("framed")>>))

\* The folder-name patterns with the frame_type group of the second left
\* without its name.
FolderNamePatterns_TypeUnnamed ==
    << Cat(<<Bol, Grp(attrFrameSize, SizeToken), Eol>>),
       Cat(<<Bol, Grp(attrFrameSize, SizeToken), Lit(" "), Grp("", FramedPhrase), Eol>>),
       Cat(<<Bol, Grp(attrFrameType, Cat(<<FramedPhrase, PieceCount>>)), Lit(" "),
             Grp(attrFrameSize, SizeToken), Eol>>),
       Cat(<<Bol, Grp(attrFrameType, Cat(<<WoodPhrase, PieceCount>>)), Lit(" "),
             Grp(attrFrameSize, SizeToken), Eol>>) >>

FolderNamePatterns ==
    << Cat(<<Bol, Grp(attrFrameSize, SizeToken), Eol>>),
       Cat(<<Bol, Grp(attrFrameSize, SizeToken), Lit(" "),
             Grp(attrFrameType, FramedPhrase), Eol>>),
       Cat(<<Bol, Grp(attrFrameType, Cat(<<FramedPhrase, PieceCount>>)), Lit(" "),
             Grp(attrFrameSize, SizeToken), Eol>>),
       Cat(<<Bol, Grp(attrFrameType, Cat(<<WoodPhrase, PieceCount>>)), Lit(" "),
             Grp(attrFrameSize, SizeToken), Eol>>) >>

\* [^_]+
Segment == Plus(Not("_"))

FileNamePatterns ==
    << Cat(<<Bol, Grp("", Segment), Lit("_"), Grp(attrFrameType, Segment), Lit("_"),
             Grp(attrFrameSize, SizeToken), Star(AnyChar), Eol>>),
       Cat(<<Bol, Grp("", Segment), Lit("_"),
             Grp(attrFrameType, Cat(<<Segment, Lit("_"), Segment>>)), Lit("_"),
             Grp(attrFrameSize, SizeToken), Star(AnyChar), Eol>>) >>

FrameTypeMapping ==
    LET entries == {
        << <<"cn">>, << <<>> >> >>,
        << <<"fr">>, << <<"black", " ", "framed">>, <<"framed">> >> >>,
        << <<"gff">>, << <<"gray", " ", "framed">> >> >>,
        << <<"wfr">>, << <<"white", " ", "framed">> >> >>,
        << <<"ffb">>, << <<"floating", " ", "black", " ", "framed">> >> >>,
        << <<"ffg">>, << <<"floating", " ", "gold", " ", "framed">> >> >>,
        << <<"ffl">>, << <<"floating", " ", "gray", " ", "framed">> >> >>,
        << <<"sqw">>, << <<>> >> >>,
        << <<"fr", "_", "2", "pc">>, << <<"framed", " ", "2", "pc">> >> >>,
        << <<"fr", "_", "3", "pc">>, << <<"framed", " ", "3", "pc">> >> >>,
        << <<"fr", "_", "4", "pc">>, << <<"framed", " ", "4", "pc">> >> >>,
        << <<"fr", "_", "9", "pc">>, << <<"framed", " ", "9", "pc">> >> >>,
        << <<"gff", "_", "2", "pc">>, << <<"gray", " ", "framed", " ", "2", "pc">> >> >>,
        << <<"gff", "_", "3", "pc">>, << <<"gray", " ", "framed", " ", "3", "pc">> >> >>,
        << <<"gff", "_", "4", "pc">>, << <<"gray", " ", "framed", " ", "4", "pc">> >> >>,
        << <<"gff", "_", "9", "pc">>, << <<"gray", " ", "framed", " ", "9", "pc">> >> >>,
        << <<"wfr", "_", "2", "pc">>, << <<"white", " ", "framed", " ", "2", "pc">> >> >>,
        << <<"wfr", "_", "3", "pc">>, << <<"white", " ", "framed", " ", "3", "pc">> >> >>,
        << <<"wfr", "_", "4", "pc">>, << <<"white", " ", "framed", " ", "4", "pc">> >> >>,
        << <<"wfr", "_", "9", "pc">>, << <<"white", " ", "framed", " ", "9", "pc">> >> >>,
        << <<"wd">>, << <<"wood">>, <<"wood", " ", "horz">>, <<"wood", " ", "vert">> >> >>,
        << <<"wd", "_", "2", "pc">>, << <<"wood", " ", "2", "pc">> >> >>,
        << <<"wd", "_", "3", "pc">>, << <<"wood", " ", "3", "pc">> >> >>,
        << <<"wd", "_", "4", "pc">>, << <<"wood", " ", "4", "pc">> >> >>,
        << <<"wd", "_", "crx">>, << <<"wood", " ", "crx">> >> >> }
    IN  [key \in {en[1] : en \in entries} |->
            (CHOOSE en \in entries : en[1] = key)[2]]

\* The Metadata of watcher.yaml.
YamlMetadata ==
    [FrameType2Name |-> FrameTypeMapping,
     FolderNamePatterns |-> FolderNamePatterns,
     FileNamePatterns |-> FileNamePatterns]

(***************************************************************************)
(* Event.Has / Event.HasOp: the bit of op is set in the bitmask.           *)
(***************************************************************************)
Has(mask, op) == (mask \div op) % 2 = 1

\* HasOp with "or" for "and": e.Op|op != 0.
HasOp_Or(e, op) == e.Op # 0 \/ op # 0

HasOp(e, op) == Has(e.Op, op)

(***************************************************************************)
(* Event.IsSameWriteEventAs                                                *)
(***************************************************************************)
\* The pairs with a remove counted as the continuation of a write.
opPairs_Remove == << <<CreateOp, CreateOp>>, <<CreateOp, WriteOp>>,
                     <<WriteOp, CreateOp>>, <<WriteOp, WriteOp>>,
                     <<WriteOp, RemoveOp>> >>

opPairs == << <<CreateOp, CreateOp>>, <<CreateOp, WriteOp>>,
              <<WriteOp, CreateOp>>, <<WriteOp, WriteOp>> >>

consecutiveWriteEvent(e, e0) ==
    \E i \in 1..Len(opPairs) : Has(e0.Op, opPairs[i][1]) /\ Has(e.Op, opPairs[i][2])

elapsedTime(e, e0) == e.time - e0.time

\* The comparison reading the first operation of each pair for both events.
IsSameWriteEventAs_SameOp(e, e0) ==
    /\ elapsedTime(e, e0) < DebounceWindow
    /\ \E i \in 1..Len(opPairs) : Has(e0.Op, opPairs[i][1]) /\ Has(e.Op, opPairs[i][1])

\* The comparison with a window that includes its end.
IsSameWriteEventAs_Le(e, e0) ==
    elapsedTime(e, e0) <= DebounceWindow /\ consecutiveWriteEvent(e, e0)

IsSameWriteEventAs(e, e0) ==
    elapsedTime(e, e0) < DebounceWindow /\ consecutiveWriteEvent(e, e0)

(***************************************************************************)
(* The purge at the top of each iteration of Watch.                        *)
(***************************************************************************)
\* A purge that removes records still inside the debounce window.
purge_Eager(log, t0) ==
    {name \in DOMAIN log : t0 - log[name].time >= DebounceWindow \div 2}

purge(log, t0) == {name \in DOMAIN log : t0 - log[name].time > PurgeAge}

Purged(log, t0) == [name \in (DOMAIN log) \ purge(log, t0) |-> log[name]]

(***************************************************************************)
(* showAlert: the alert is raised; the n-th call returns an error if the   *)
(* sink says so (the dialog of the program never does, the sink of the     *)
(* tests always does).                                                     *)
(***************************************************************************)
SinkErr(sink, n) == n <= Len(sink) /\ sink[n]

showAlert(sink, alerts, title, msg) ==
    [alerts |-> Append(alerts, [title |-> title, msg |-> msg]),
     err |-> SinkErr(sink, Len(alerts) + 1)]

\* A Go map: m[k] of a missing key (or of a nil map) is the zero value, here
\* the empty string or the nil slice.
NilAttr == [nil |-> TRUE]

Get(m, k) == IF k \in DOMAIN m THEN m[k] ELSE <<>>

Put(m, k, v) == [x \in DOMAIN m \cup {k} |-> IF x = k THEN v ELSE m[x]]

(***************************************************************************)
(* The loop over SubexpNames of getFileAttributes (and, word for word, of  *)
(* getFolderAttributes): every group named frame_type or frame_size whose  *)
(* submatch is not empty sets the attribute, lowercased and trimmed.       *)
(***************************************************************************)
RECURSIVE namedGroupsFrom(_, _, _, _)
namedGroupsFrom(names, matches, i, acc) ==
    IF i > Len(names) THEN acc
    ELSE namedGroupsFrom(names, matches, i + 1,
            CASE names[i] = attrFrameType /\ matches[i] # <<>> ->
                    [acc EXCEPT !.attr = Put(@, attrFrameType, ToLower(TrimSpace(matches[i]))),
                                !.foundAttrFrameType = TRUE]
              [] names[i] = attrFrameSize /\ matches[i] # <<>> ->
                    [acc EXCEPT !.attr = Put(@, attrFrameSize, ToLower(TrimSpace(matches[i]))),
                                !.foundAttrFrameSize = TRUE]
              [] OTHER -> acc)

namedGroups(regex, matches) ==
    LET none == [attr |-> <<>>, foundAttrFrameType |-> FALSE, foundAttrFrameSize |-> FALSE]
    IN  IF matches # <<>> THEN namedGroupsFrom(SubexpNames(regex), matches, 1, none)
        ELSE none

MissingFrameType == "does not specify frame type in the configured format"
MissingFrameSize == "does not specify frame size in the configured format"

(***************************************************************************)
(* getFileAttributes                                                       *)
(***************************************************************************)
getFileAttributes(filePath, fileNamePatterns, sink, alerts) ==
    LET fileNameRegex == JoinPatterns(fileNamePatterns)
        fileName == TrimSuffix(Base(filePath), Ext(filePath))
        matches == FindStringSubmatch(fileNameRegex, fileName)
        g == namedGroups(fileNameRegex, matches)
    IN  IF ~g.foundAttrFrameType
          THEN LET a == showAlert(sink, alerts, "INVALID FILE NAME",
                                  [file |-> fileName, error |-> MissingFrameType])
               IN  [attr |-> NilAttr, err |-> a.err, alerts |-> a.alerts]
        ELSE IF ~g.foundAttrFrameSize
          THEN LET a == showAlert(sink, alerts, "INVALID FILE NAME",
                                  [file |-> fileName, error |-> MissingFrameSize])
               IN  [attr |-> NilAttr, err |-> a.err, alerts |-> a.alerts]
        ELSE [attr |-> g.attr, err |-> FALSE, alerts |-> alerts]

(***************************************************************************)
(* getFolderAttributes                                                     *)
(***************************************************************************)
\* The attributes of a folder name without the default of the frame type.
folderAttr_NoDefault(g) == g.attr

\* Frame type is optional in the folder name.
folderAttr(g) ==
    IF ~g.foundAttrFrameType THEN Put(g.attr, attrFrameType, <<>>) ELSE g.attr

getFolderAttributes(folderPath, folderNamePatterns, sink, alerts) ==
    LET dirNameRegex == JoinPatterns(folderNamePatterns)
        dirName == Base(folderPath)
        matches == FindStringSubmatch(dirNameRegex, dirName)
        g == namedGroups(dirNameRegex, matches)
        attr == folderAttr(g)
    IN  IF ~g.foundAttrFrameSize
          THEN LET a == showAlert(sink, alerts, "INVALID FOLDER NAME",
                                  [folder |-> dirName, error |-> MissingFrameSize])
               IN  [attr |-> NilAttr, err |-> a.err, alerts |-> a.alerts]
        ELSE [attr |-> attr, err |-> FALSE, alerts |-> alerts]

(***************************************************************************)
(* CheckSizeAndFrame: the callback.  The result records the alerts raised, *)
(* the error returned, the attributes extracted (NilAttr where none) and   *)
(* the steps of the callback that ran.                                     *)
(***************************************************************************)
\* The folder's frame type differs from some candidate.
wrongFrameType_Any(dirAttr, frameTypeNames) ==
    \E i \in 1..Len(frameTypeNames) : Get(dirAttr, attrFrameType) # frameTypeNames[i]

wrongFrameType(dirAttr, frameTypeNames) ==
    \A i \in 1..Len(frameTypeNames) : Get(dirAttr, attrFrameType) # frameTypeNames[i]

wrongFrameSize(dirAttr, fileAttr) ==
    Get(dirAttr, attrFrameSize) # Get(fileAttr, attrFrameSize)

\* The suggestions built from the folder's frame size.
possibleNames_DirSize(fileAttr, dirAttr, frameTypeNames) ==
    [i \in 1..Len(frameTypeNames) |->
        TrimSpace(Sprintf2(Get(dirAttr, attrFrameSize), frameTypeNames[i]))]

possibleNames(fileAttr, dirAttr, frameTypeNames) ==
    [i \in 1..Len(frameTypeNames) |->
        TrimSpace(Sprintf2(Get(fileAttr, attrFrameSize), frameTypeNames[i]))]

\* The one suggestion without the trimming.
keptTypeName_Untrimmed(fileAttr, dirAttr) ==
    Sprintf2(Get(fileAttr, attrFrameSize), Get(dirAttr, attrFrameType))

keptTypeName(fileAttr, dirAttr) ==
    TrimSpace(Sprintf2(Get(fileAttr, attrFrameSize), Get(dirAttr, attrFrameType)))

correctDirName(fileAttr, dirAttr, frameTypeNames) ==
    IF ~wrongFrameType(dirAttr, frameTypeNames)
      THEN keptTypeName(fileAttr, dirAttr)
      ELSE Join(possibleNames(fileAttr, dirAttr, frameTypeNames), <<" ", "OR", " ">>)

\* The lookup that takes every abbreviation for a known one.
knownFrameType_Always(mapping, fileAttr) == TRUE

\* frameTypeNames, ok := cfg.Metadata.FrameType2Name[fileAttr[attrFrameType]]
knownFrameType(mapping, fileAttr) == Get(fileAttr, attrFrameType) \in DOMAIN mapping

\* The test that lets the callback go on without file attributes.
attrsMissing_FolderOnly(fileAttr, dirAttr) == dirAttr = NilAttr

\* if fileAttr == nil || dirAttr == nil
attrsMissing(fileAttr, dirAttr) == fileAttr = NilAttr \/ dirAttr = NilAttr

CheckSizeAndFrame(metadata, e, sink) ==
    IF ~HasOp(e, CreateOp) /\ ~HasOp(e, WriteOp)
      THEN [alerts |-> <<>>, err |-> FALSE, fileAttr |-> NilAttr, dirAttr |-> NilAttr,
            steps |-> <<>>]
    ELSE
    LET f == getFileAttributes(e.Name, metadata.FileNamePatterns, sink, <<>>) IN
    IF f.err
      THEN [alerts |-> f.alerts, err |-> TRUE, fileAttr |-> f.attr, dirAttr |-> NilAttr,
            steps |-> <<"file">>]
    ELSE
    LET d == getFolderAttributes(Dir(e.Name), metadata.FolderNamePatterns, sink, f.alerts) IN
    IF d.err
      THEN [alerts |-> d.alerts, err |-> TRUE, fileAttr |-> f.attr, dirAttr |-> d.attr,
            steps |-> <<"file", "folder">>]
    ELSE IF attrsMissing(f.attr, d.attr)
      THEN [alerts |-> d.alerts, err |-> FALSE, fileAttr |-> f.attr, dirAttr |-> d.attr,
            steps |-> <<"file", "folder">>]
    ELSE
    LET frameTypeNames == Get(metadata.FrameType2Name, Get(f.attr, attrFrameType)) IN
    IF ~knownFrameType(metadata.FrameType2Name, f.attr)
      THEN LET a == showAlert(sink, d.alerts, "UNKNOWN FRAME TYPE",
                              [file |-> e.Name, type |-> Get(f.attr, attrFrameType)])
           IN  [alerts |-> a.alerts, err |-> a.err, fileAttr |-> f.attr,
                dirAttr |-> d.attr, steps |-> <<"file", "folder", "lookup">>]
    ELSE
    LET currentDirName == Base(Dir(e.Name)) IN
    IF wrongFrameSize(d.attr, f.attr) \/ wrongFrameType(d.attr, frameTypeNames)
      THEN LET a == showAlert(sink, d.alerts, "WRONG FOLDER",
                              [file |-> Base(e.Name), wrong |-> currentDirName,
                               correct |-> correctDirName(f.attr, d.attr, frameTypeNames)])
           IN  [alerts |-> a.alerts, err |-> a.err, fileAttr |-> f.attr,
                dirAttr |-> d.attr, steps |-> <<"file", "folder", "lookup", "compare">>]
    ELSE [alerts |-> d.alerts, err |-> FALSE, fileAttr |-> f.attr, dirAttr |-> d.attr,
          steps |-> <<"file", "folder", "lookup", "compare">>]

NoEvent == [Name |-> "", Op |-> 0, time |-> 0]

NoOut ==
    [alerts |-> <<>>, err |-> FALSE, fileAttr |-> NilAttr, dirAttr |-> NilAttr,
     steps |-> <<>>]

\* watch() has added the one folder of its configuration to the watcher.
FoldersAdded ==
    /\ watcherCfg = [IncludeFolders |-> <<"w/11x14">>, ExcludeFolders |-> <<>>]
    /\ wPc = "added"
    /\ watchList = <<"w/11x14">>
    /\ added = <<"w/11x14">>
    /\ setupErr = "none"

\* No extraction function is called on its own.
NoExtraction ==
    /\ exFn = "none"
    /\ exPath = <<>>
    /\ exPats = "none"
    /\ exSink = FALSE
    /\ exPc = "none"
    /\ exOut = [attr |-> NilAttr, err |-> FALSE, alerts |-> <<>>]

\* The watcher after New: no callback registered, Watch not called.
InitWatcher ==
    /\ pc = "idle"
    /\ now = 0
    /\ ticks = 0
    /\ emitted = 0
    /\ Events = <<>>
    /\ eventsClosed = FALSE
    /\ Errors = 0
    /\ errorsSent = 0
    /\ errorsClosed = FALSE
    /\ ctxDone = FALSE
    /\ callbacks = <<>>
    /\ addErr = FALSE
    /\ eventLog = <<>>
    /\ newEvent = NoEvent
    /\ cbIdx = 0
    /\ ret = "none"
    /\ received = <<>>
    /\ calls = <<>>
    /\ sentAt = <<>>

Init ==
    /\ InitWatcher
    /\ cfg = "yaml"
    /\ cbEvent = [Name |-> <<>>, Op |-> 0]
    /\ cbSink = <<>>
    /\ cbPc = "none"
    /\ cbOut = NoOut
    /\ NoExtraction
    /\ FoldersAdded

(***************************************************************************)
(* FSNotifyWatcher.AddCallbacks: appends the callbacks in order and stops  *)
(* with an error at the first nil one.                                     *)
(***************************************************************************)
RECURSIVE NonNilPrefix(_)
NonNilPrefix(cbs) ==
    IF cbs = <<>> \/ Head(cbs) = Nil THEN <<>>
    ELSE <<Head(cbs)>> \o NonNilPrefix(Tail(cbs))

\* AddCallbacks putting the new callbacks in front of the registered ones.
AddCallbacks_Prepend(cbs) ==
    /\ pc = "idle"
    /\ Len(callbacks) + Len(cbs) <= MaxCallbacks
    /\ callbacks' = NonNilPrefix(cbs) \o callbacks
    /\ addErr' = (addErr \/ \E i \in 1..Len(cbs) : cbs[i] = Nil)
    /\ UNCHANGED <<checkVars, extractVars, setupVars, sentAt, pc, now, ticks, emitted, Events, eventsClosed, Errors, errorsSent,
                   errorsClosed, ctxDone, eventLog, newEvent, cbIdx, ret,
                   received, calls>>

AddCallbacks(cbs) ==
    /\ pc = "idle"
    /\ Len(callbacks) + Len(cbs) <= MaxCallbacks
    /\ callbacks' = callbacks \o NonNilPrefix(cbs)
    /\ addErr' = (addErr \/ \E i \in 1..Len(cbs) : cbs[i] = Nil)
    /\ UNCHANGED <<checkVars, extractVars, setupVars, sentAt, pc, now, ticks, emitted, Events, eventsClosed, Errors, errorsSent,
                   errorsClosed, ctxDone, eventLog, newEvent, cbIdx, ret,
                   received, calls>>

(***************************************************************************)
(* Watch is called: eventLog is made and the first iteration runs up to    *)
(* the select (the purge finds an empty eventLog).                         *)
(***************************************************************************)
WatchStart ==
    /\ pc = "idle"
    /\ pc' = "select"
    /\ eventLog' = Purged(<<>>, now)
    /\ UNCHANGED <<checkVars, extractVars, setupVars, sentAt, now, ticks, emitted, Events, eventsClosed, Errors, errorsSent,
                   errorsClosed, ctxDone, callbacks, addErr, newEvent, cbIdx, ret,
                   received, calls>>

(***************************************************************************)
(* select case <-ctx.Done()                                                *)
(***************************************************************************)
\* The case returning nil for the cancellation.
WatchCtxDone_Nil ==
    /\ pc = "select"
    /\ ctxDone
    /\ pc' = "done"
    /\ ret' = "nil"
    /\ UNCHANGED <<checkVars, extractVars, setupVars, sentAt, now, ticks, emitted, Events, eventsClosed, Errors, errorsSent,
                   errorsClosed, ctxDone, callbacks, addErr, eventLog, newEvent,
                   cbIdx, received, calls>>

WatchCtxDone ==
    /\ pc = "select"
    /\ ctxDone
    /\ pc' = "done"
    /\ ret' = "ctxErr"
    /\ UNCHANGED <<checkVars, extractVars, setupVars, sentAt, now, ticks, emitted, Events, eventsClosed, Errors, errorsSent,
                   errorsClosed, ctxDone, callbacks, addErr, eventLog, newEvent,
                   cbIdx, received, calls>>

(***************************************************************************)
(* select case e, ok := <-w.Events with ok false                           *)
(***************************************************************************)
\* The case returning an error for the closed channel.
WatchEventsClosed_Err ==
    /\ pc = "select"
    /\ Events = <<>>
    /\ eventsClosed
    /\ pc' = "done"
    /\ ret' = "closedErr"
    /\ UNCHANGED <<checkVars, extractVars, setupVars, sentAt, now, ticks, emitted, Events, eventsClosed, Errors, errorsSent,
                   errorsClosed, ctxDone, callbacks, addErr, eventLog, newEvent,
                   cbIdx, received, calls>>

WatchEventsClosed ==
    /\ pc = "select"
    /\ Events = <<>>
    /\ eventsClosed
    /\ pc' = "done"
    /\ ret' = "nil"
    /\ UNCHANGED <<checkVars, extractVars, setupVars, sentAt, now, ticks, emitted, Events, eventsClosed, Errors, errorsSent,
                   errorsClosed, ctxDone, callbacks, addErr, eventLog, newEvent,
                   cbIdx, received, calls>>

(***************************************************************************)
(* select case e, ok := <-w.Events with ok true: the event is stamped,     *)
(* compared with the stored event of its path, stored, and either ignored  *)
(* or handed to the callbacks.  An iteration that ends here goes on to the *)
(* top of the loop, where stored events older than 30 seconds are purged,  *)
(* and waits in the select again.                                          *)
(***************************************************************************)
\* The case that leaves the stored event in place when it ignores one.
WatchEvent_KeepOnIgnore ==
    /\ pc = "select"
    /\ Events # <<>>
    /\ LET e == Head(Events)
           ne == [Name |-> e.Name, Op |-> e.Op, time |-> now]
           ok == e.Name \in DOMAIN eventLog
           prevEvent == IF ok THEN eventLog[e.Name] ELSE NoEvent
           ignore == IF ok THEN IsSameWriteEventAs(ne, prevEvent) ELSE FALSE
           stored == IF ignore THEN eventLog
                     ELSE [name \in DOMAIN eventLog \cup {e.Name} |->
                              IF name = e.Name THEN ne ELSE eventLog[name]]
       IN  /\ Events' = Tail(Events)
           /\ newEvent' = ne
           /\ received' = Append(received,
                  [Name |-> e.Name, Op |-> e.Op, time |-> now, ignore |-> ignore,
                   ok |-> ok, prev |-> prevEvent])
           /\ IF ignore \/ callbacks = <<>>
                 THEN /\ pc' = "select"
                      /\ cbIdx' = 0
                      /\ eventLog' = Purged(stored, now)
                 ELSE /\ pc' = "callback"
                      /\ cbIdx' = 1
                      /\ eventLog' = stored
    /\ UNCHANGED <<checkVars, extractVars, setupVars, sentAt, now, ticks, emitted, eventsClosed, Errors, errorsSent,
                   errorsClosed, ctxDone, callbacks, addErr, ret, calls>>

\* The events case taken while a callback of the event before is running.
WatchEvent_Concurrent ==
    /\ pc \in {"select", "callback"}
    /\ Events # <<>>
    /\ LET e == Head(Events)
           ne == [Name |-> e.Name, Op |-> e.Op, time |-> now]
           ok == e.Name \in DOMAIN eventLog
           prevEvent == IF ok THEN eventLog[e.Name] ELSE NoEvent
           ignore == IF ok THEN IsSameWriteEventAs(ne, prevEvent) ELSE FALSE
           stored == [name \in DOMAIN eventLog \cup {e.Name} |->
                         IF name = e.Name THEN ne ELSE eventLog[name]]
       IN  /\ Events' = Tail(Events)
           /\ newEvent' = ne
           /\ received' = Append(received,
                  [Name |-> e.Name, Op |-> e.Op, time |-> now, ignore |-> ignore,
                   ok |-> ok, prev |-> prevEvent])
           /\ IF ignore \/ callbacks = <<>>
                 THEN /\ pc' = "select"
                      /\ cbIdx' = 0
                      /\ eventLog' = Purged(stored, now)
                 ELSE /\ pc' = "callback"
                      /\ cbIdx' = 1
                      /\ eventLog' = stored
    /\ UNCHANGED <<checkVars, extractVars, setupVars, sentAt, now, ticks, emitted, eventsClosed, Errors, errorsSent,
                   errorsClosed, ctxDone, callbacks, addErr, ret, calls>>

\* The events case with a log that keeps the record of the latest path only.
WatchEvent_ResetLog ==
    /\ pc = "select"
    /\ Events # <<>>
    /\ LET e == Head(Events)
           ne == [Name |-> e.Name, Op |-> e.Op, time |-> now]
           ok == e.Name \in DOMAIN eventLog
           prevEvent == IF ok THEN eventLog[e.Name] ELSE NoEvent
           ignore == IF ok THEN IsSameWriteEventAs(ne, prevEvent) ELSE FALSE
           stored == [name \in {e.Name} |-> ne]
       IN  /\ Events' = Tail(Events)
           /\ newEvent' = ne
           /\ received' = Append(received,
                  [Name |-> e.Name, Op |-> e.Op, time |-> now, ignore |-> ignore,
                   ok |-> ok, prev |-> prevEvent])
           /\ IF ignore \/ callbacks = <<>>
                 THEN /\ pc' = "select"
                      /\ cbIdx' = 0
                      /\ eventLog' = Purged(stored, now)
                 ELSE /\ pc' = "callback"
                      /\ cbIdx' = 1
                      /\ eventLog' = stored
    /\ UNCHANGED <<checkVars, extractVars, setupVars, sentAt, now, ticks, emitted, eventsClosed, Errors, errorsSent,
                   errorsClosed, ctxDone, callbacks, addErr, ret, calls>>

WatchEvent ==
    /\ pc = "select"
    /\ Events # <<>>
    /\ LET e == Head(Events)
           ne == [Name |-> e.Name, Op |-> e.Op, time |-> now]
           ok == e.Name \in DOMAIN eventLog
           prevEvent == IF ok THEN eventLog[e.Name] ELSE NoEvent
           ignore == IF ok THEN IsSameWriteEventAs(ne, prevEvent) ELSE FALSE
           stored == [name \in DOMAIN eventLog \cup {e.Name} |->
                         IF name = e.Name THEN ne ELSE eventLog[name]]
       IN  /\ Events' = Tail(Events)
           /\ newEvent' = ne
           /\ received' = Append(received,
                  [Name |-> e.Name, Op |-> e.Op, time |-> now, ignore |-> ignore,
                   ok |-> ok, prev |-> prevEvent])
           /\ IF ignore \/ callbacks = <<>>
                 THEN /\ pc' = "select"
                      /\ cbIdx' = 0
                      /\ eventLog' = Purged(stored, now)
                 ELSE /\ pc' = "callback"
                      /\ cbIdx' = 1
                      /\ eventLog' = stored
    /\ UNCHANGED <<checkVars, extractVars, setupVars, sentAt, now, ticks, emitted, eventsClosed, Errors, errorsSent,
                   errorsClosed, ctxDone, callbacks, addErr, ret, calls>>

(***************************************************************************)
(* One turn of the loop over w.callbacks for the admitted event: the       *)
(* callback is invoked and an error it returns is logged.                  *)
(***************************************************************************)
\* The turn with a return from Watch on the callback's error.
WatchCallback_ReturnOnError ==
    /\ pc = "callback"
    /\ calls' = Append(calls, [ev |-> Len(received), cb |-> callbacks[cbIdx],
                               err |-> callbackErr(callbacks[cbIdx])])
    /\ IF callbackErr(callbacks[cbIdx])
          THEN /\ cbIdx' = 0
               /\ pc' = "done"
               /\ ret' = "callbackErr"
               /\ eventLog' = eventLog
          ELSE IF cbIdx < Len(callbacks)
          THEN /\ cbIdx' = cbIdx + 1
               /\ pc' = "callback"
               /\ ret' = ret
               /\ eventLog' = eventLog
          ELSE /\ cbIdx' = 0
               /\ pc' = "select"
               /\ ret' = ret
               /\ eventLog' = Purged(eventLog, now)
    /\ UNCHANGED <<checkVars, extractVars, setupVars, sentAt, now, ticks, emitted, Events, eventsClosed, Errors, errorsSent,
                   errorsClosed, ctxDone, callbacks, addErr, newEvent,
                   received>>

WatchCallback ==
    /\ pc = "callback"
    /\ calls' = Append(calls, [ev |-> Len(received), cb |-> callbacks[cbIdx],
                               err |-> callbackErr(callbacks[cbIdx])])
    /\ IF cbIdx < Len(callbacks)
          THEN /\ cbIdx' = cbIdx + 1
               /\ pc' = "callback"
               /\ eventLog' = eventLog
          ELSE /\ cbIdx' = 0
               /\ pc' = "select"
               /\ eventLog' = Purged(eventLog, now)
    /\ UNCHANGED <<checkVars, extractVars, setupVars, sentAt, now, ticks, emitted, Events, eventsClosed, Errors, errorsSent,
                   errorsClosed, ctxDone, callbacks, addErr, newEvent,
                   ret, received>>

(***************************************************************************)
(* select case err, ok := <-w.Errors                                       *)
(***************************************************************************)
\* The case returning the error of the notification layer.
WatchError_Return ==
    /\ pc = "select"
    /\ Errors > 0
    /\ Errors' = Errors - 1
    /\ pc' = "done"
    /\ ret' = "watcherErr"
    /\ eventLog' = eventLog
    /\ UNCHANGED <<checkVars, extractVars, setupVars, sentAt, now, ticks, emitted, Events, eventsClosed, errorsSent,
                   errorsClosed, ctxDone, callbacks, addErr, newEvent,
                   cbIdx, received, calls>>

WatchError ==
    /\ pc = "select"
    /\ Errors > 0
    /\ Errors' = Errors - 1
    /\ pc' = "select"
    /\ eventLog' = Purged(eventLog, now)
    /\ UNCHANGED <<checkVars, extractVars, setupVars, sentAt, now, ticks, emitted, Events, eventsClosed, errorsSent,
                   errorsClosed, ctxDone, callbacks, addErr, newEvent,
                   cbIdx, ret, received, calls>>

\* The closed error channel reported as an error.
WatchErrorsClosed_Err ==
    /\ pc = "select"
    /\ Errors = 0
    /\ errorsClosed
    /\ pc' = "done"
    /\ ret' = "ctxErr"
    /\ UNCHANGED <<checkVars, extractVars, setupVars, sentAt, now, ticks, emitted, Events, eventsClosed, Errors, errorsSent,
                   errorsClosed, ctxDone, callbacks, addErr, eventLog, newEvent,
                   cbIdx, received, calls>>

WatchErrorsClosed ==
    /\ pc = "select"
    /\ Errors = 0
    /\ errorsClosed
    /\ pc' = "done"
    /\ ret' = "nil"
    /\ UNCHANGED <<checkVars, extractVars, setupVars, sentAt, now, ticks, emitted, Events, eventsClosed, Errors, errorsSent,
                   errorsClosed, ctxDone, callbacks, addErr, eventLog, newEvent,
                   cbIdx, received, calls>>

(***************************************************************************)
(* The environment: the clock, the notification layer and the caller's     *)
(* cancellation.                                                           *)
(***************************************************************************)
Tick(d) ==
    /\ pc \notin {"idle", "done"}
    /\ ticks < MaxTicks
    /\ ticks' = ticks + 1
    /\ now' = now + d
    /\ UNCHANGED <<checkVars, extractVars, setupVars, sentAt, pc, emitted, Events, eventsClosed, Errors, errorsSent,
                   errorsClosed, ctxDone, callbacks, addErr, eventLog, newEvent,
                   cbIdx, ret, received, calls>>

Emit(name, op) ==
    /\ pc \notin {"idle", "done"}
    /\ ~eventsClosed
    /\ emitted < MaxEvents
    /\ Events = <<>>
    /\ Events' = Append(Events, [Name |-> name, Op |-> op])
    /\ emitted' = emitted + 1
    /\ UNCHANGED <<checkVars, extractVars, setupVars, sentAt, pc, now, ticks, eventsClosed, Errors, errorsSent,
                   errorsClosed, ctxDone, callbacks, addErr, eventLog, newEvent,
                   cbIdx, ret, received, calls>>

EmitError ==
    /\ pc \notin {"idle", "done"}
    /\ ~errorsClosed
    /\ errorsSent < MaxErrors
    /\ Errors' = Errors + 1
    /\ errorsSent' = errorsSent + 1
    /\ UNCHANGED <<checkVars, extractVars, setupVars, sentAt, pc, now, ticks, emitted, Events, eventsClosed,
                   errorsClosed, ctxDone, callbacks, addErr, eventLog, newEvent,
                   cbIdx, ret, received, calls>>

CloseEvents ==
    /\ pc \notin {"idle", "done"}
    /\ ~eventsClosed
    /\ eventsClosed' = TRUE
    /\ UNCHANGED <<checkVars, extractVars, setupVars, sentAt, pc, now, ticks, emitted, Events, Errors, errorsSent,
                   errorsClosed, ctxDone, callbacks, addErr, eventLog, newEvent,
                   cbIdx, ret, received, calls>>

CloseErrors ==
    /\ pc \notin {"idle", "done"}
    /\ ~errorsClosed
    /\ errorsClosed' = TRUE
    /\ UNCHANGED <<checkVars, extractVars, setupVars, sentAt, pc, now, ticks, emitted, Events, eventsClosed, Errors, errorsSent,
                   ctxDone, callbacks, addErr, eventLog, newEvent,
                   cbIdx, ret, received, calls>>

Cancel ==
    /\ pc \notin {"idle", "done"}
    /\ ~ctxDone
    /\ ctxDone' = TRUE
    /\ UNCHANGED <<checkVars, extractVars, setupVars, sentAt, pc, now, ticks, emitted, Events, eventsClosed, Errors, errorsSent,
                   errorsClosed, callbacks, addErr, eventLog, newEvent,
                   cbIdx, ret, received, calls>>

(***************************************************************************)
(* watch(): the setup registers the one callback and calls Watch.          *)
(***************************************************************************)
watchAddCallbacksWith(cbs) ==
    /\ wPc = "added"
    /\ callbacks = <<>>
    /\ ~addErr
    /\ AddCallbacks(cbs)

watchAddCallbacks == watchAddCallbacksWith(<<"cb1">>)

watchWatch ==
    /\ wPc = "added"
    /\ callbacks # <<>>
    /\ ~addErr
    /\ WatchStart

(***************************************************************************)
(* The program fed with raw events while the clock advances.               *)
(***************************************************************************)
Next ==
    \/ watchAddCallbacks
    \/ watchWatch
    \/ WatchEvent
    \/ WatchCallback
    \/ \E d \in Jumps : Tick(d)
    \/ \E e \in RawEvents : Emit(e.Name, e.Op)

Spec == Init /\ [][Next]_vars

(***************************************************************************)
(* The watcher used through its interface: any AddCallbacks calls, then    *)
(* Watch, fed with events and errors, its channels closed and its context  *)
(* cancelled at any moment.                                                *)
(***************************************************************************)
RunEvents == {[Name |-> "p1", Op |-> WriteOp], [Name |-> "p1", Op |-> RemoveOp]}

NextRun ==
    \/ \E cbs \in CallbackArgs : AddCallbacks(cbs)
    \/ WatchStart
    \/ WatchCtxDone
    \/ WatchEventsClosed
    \/ WatchEvent
    \/ WatchCallback
    \/ WatchError
    \/ WatchErrorsClosed
    \/ \E e \in RunEvents : Emit(e.Name, e.Op)
    \/ EmitError
    \/ CloseEvents
    \/ CloseErrors
    \/ Cancel

SpecRun == Init /\ [][NextRun]_vars

(***************************************************************************)
(* What the history says about the k-th received event.                    *)
(***************************************************************************)
\* The loop is through with the k-th received event.
Handled(k) == k < Len(received) \/ pc # "callback"

\* The callbacks invoked for the k-th received event, in order.
RECURSIVE CallsOf(_, _)
CallsOf(cs, k) ==
    IF cs = <<>> THEN <<>>
    ELSE IF Head(cs).ev = k THEN <<Head(cs).cb>> \o CallsOf(Tail(cs), k)
         ELSE CallsOf(Tail(cs), k)

\* The k-th received event was withheld from the callbacks.
Withheld(k) == CallsOf(calls, k) = <<>>

\* The k-th received event was dispatched to the callbacks.
Dispatched(k) == Handled(k) /\ CallsOf(calls, k) = callbacks

HasWrite(op) == Has(op, CreateOp) \/ Has(op, WriteOp)

\* The pair (stored op, new op) is one of create->create, create->write,
\* write->create, write->write.
WritePair(op0, op) ==
    \/ Has(op0, CreateOp) /\ Has(op, CreateOp)
    \/ Has(op0, CreateOp) /\ Has(op, WriteOp)
    \/ Has(op0, WriteOp) /\ Has(op, CreateOp)
    \/ Has(op0, WriteOp) /\ Has(op, WriteOp)

\* The condition of C1 for the k-th received event: a record was stored for
\* its path, less than one second old, and the operations form a write pair.
Continuation(k) ==
    /\ received[k].ok
    /\ received[k].time - received[k].prev.time < Second
    /\ WritePair(received[k].prev.Op, received[k].Op)

\* C1: a received event is withheld from the callbacks if and only if a
\* record is stored for its path that is less than 1 second older and the
\* (stored op, new op) pair is a create/write pair; in every other case it
\* is dispatched to the callbacks.
C1_WithheldIffContinuation ==
    \A k \in 1..Len(received) :
        /\ Continuation(k) => Withheld(k)
        /\ (~Continuation(k) /\ Handled(k)) => Dispatched(k)

\* Reached: an event was withheld, and the next event of that path, received
\* exactly one second after it and forming a write pair with it, was
\* dispatched.
C1_Witness ==
    /\ pc = "select"
    /\ \E k \in 1..Len(received) : Continuation(k) /\ Withheld(k)
    /\ \E k \in 1..Len(received) :
          /\ received[k].ok
          /\ received[k].time - received[k].prev.time = Second
          /\ WritePair(received[k].prev.Op, received[k].Op)
          /\ Dispatched(k)

\* C2 as claimed: every received event whose bitmask contains the remove bit
\* is dispatched to the callbacks.
C2_RemoveAlwaysDispatched ==
    \A k \in 1..Len(received) :
        (Has(received[k].Op, RemoveOp) /\ Handled(k)) => Dispatched(k)

\* C2 amended: every received event whose bitmask contains the remove bit
\* and neither the create nor the write bit is dispatched to the callbacks.
C2_PureRemoveDispatched ==
    \A k \in 1..Len(received) :
        (Has(received[k].Op, RemoveOp) /\ ~HasWrite(received[k].Op) /\ Handled(k))
            => Dispatched(k)

\* Reached: a remove received at the very time of the dispatched write that
\* is stored for its path was dispatched.
C2_Witness ==
    \E k \in 1..Len(received) :
        /\ received[k].Op = RemoveOp
        /\ received[k].ok
        /\ received[k].time = received[k].prev.time
        /\ received[k].prev.Op = WriteOp
        /\ Dispatched(k)

\* The received events i < j are create/write events of one path less than a
\* second apart.
RapidPair(i, j) ==
    /\ i < j
    /\ received[i].Name = received[j].Name
    /\ HasWrite(received[i].Op)
    /\ HasWrite(received[j].Op)
    /\ received[j].time - received[i].time < Second

\* Every event of that path received between i and j is a create/write event.
OnlyWritesBetween(i, j) ==
    \A m \in (i + 1)..(j - 1) :
        received[m].Name = received[i].Name => HasWrite(received[m].Op)

\* C3 as claimed: of two create/write events of one path received less than
\* a second apart at most one is dispatched, whatever is received between.
C3_AtMostOneOfRapidPair ==
    \A i, j \in 1..Len(received) :
        RapidPair(i, j) => ~(Dispatched(i) /\ Dispatched(j))

\* C3 amended: of two create/write events of one path received less than a
\* second apart at most one is dispatched, provided every event of that path
\* received between them is a create/write event too.
C3_AtMostOneOfUninterruptedPair ==
    \A i, j \in 1..Len(received) :
        (RapidPair(i, j) /\ OnlyWritesBetween(i, j))
            => ~(Dispatched(i) /\ Dispatched(j))

\* Reached: three create/write events of one path within a second, the first
\* dispatched, the third withheld.
C3_Witness ==
    \E i, j \in 1..Len(received) :
        /\ RapidPair(i, j)
        /\ OnlyWritesBetween(i, j)
        /\ \E m \in (i + 1)..(j - 1) : received[m].Name = received[i].Name
        /\ Dispatched(i)
        /\ Handled(j)
        /\ Withheld(j)

(***************************************************************************)
(* The CheckSizeAndFrame callback applied to one event: the inputs are the *)
(* configuration, the name and operations of the event and the behaviour   *)
(* of the alert sink.                                                      *)
(***************************************************************************)
\* A configuration whose mapping has an abbreviation without any candidate
\* and whose last file-name pattern, ^(?P<frame_type>notes)$, has no size.
EdgeMetadata ==
    [FrameType2Name |->
        [key \in {<<"fr">>, <<"cn">>, <<"wd">>} |->
            IF key = <<"fr">> THEN <<>> ELSE FrameTypeMapping[key]],
     FolderNamePatterns |-> FolderNamePatterns,
     FileNamePatterns |->
        FileNamePatterns \o <<Cat(<<Bol, Grp(attrFrameType, Lit("notes")), Eol>>)>>]

Configs == {"yaml", "edge"}

\* The configuration of watcher.yaml with one of its three parts left empty.
IncompleteConfigs == {"noFolderPatterns", "noFilePatterns", "noMapping"}

Metadata(c) ==
    CASE c = "yaml" -> YamlMetadata
      [] c = "edge" -> EdgeMetadata
      [] c = "noFolderPatterns" -> [YamlMetadata EXCEPT !.FolderNamePatterns = <<>>]
      [] c = "noFilePatterns" -> [YamlMetadata EXCEPT !.FileNamePatterns = <<>>]
      [] OTHER -> [YamlMetadata EXCEPT !.FrameType2Name = <<>>]

FolderNames ==
    { <<"11", "x", "14">>,
      <<"12", "x", "12">>,
      <<"11", "x", "14", " ", "framed">>,
      <<"11", "x", "14", " ", "black", " ", "framed">>,
      <<"12", "x", "12", " ", "framed">>,
      <<"framed", " ", "2", "pc", " ", "11", "x", "14">>,
      <<"wood", " ", "horz", " ", "11", "x", "14">>,
      <<"wood", " ", "crx", " ", "12", "x", "12">>,
      <<"misc">> }

FileNames ==
    { <<"a", "_", "fr", "_", "11", "x", "14", ".", "jpg">>,
      <<"a", "_", "cn", "_", "11", "x", "14", ".", "jpg">>,
      <<"a", "_", "wd", "_", "11", "x", "14", "_", "v2", ".", "jpg">>,
      <<"a", "_", "fr", "_", "2", "pc", "_", "11", "x", "14", ".", "jpg">>,
      <<"a", "_", "zz", "_", "11", "x", "14", ".", "jpg">>,
      <<"a", "_", " ", "FR", " ", "_", "12", "x", "12", ".", "jpg">>,
      <<"a", "_", " ", "_", "11", "x", "14", ".", "jpg">>,
      <<"a", "_", "11", "x", "14", ".", "jpg">>,
      <<"notes">> }

CheckNames ==
    {<<"w", "/">> \o folder \o <<"/">> \o file : folder \in FolderNames, file \in FileNames}
        \cup {<<"a", "_", "fr", "_", "11", "x", "14", ".", "jpg">>}

CheckOps == {CreateOp, WriteOp, RemoveOp, RenameOp, ChmodOp, CreateOp + WriteOp,
             WriteOp + ChmodOp}

Sinks == {<<FALSE, FALSE>>, <<FALSE, TRUE>>, <<TRUE, FALSE>>, <<TRUE, TRUE>>}

InitCheck ==
    /\ InitWatcher
    /\ cfg \in Configs
    /\ cbEvent \in [Name : CheckNames, Op : CheckOps]
    /\ cbSink \in Sinks
    /\ cbPc = "called"
    /\ cbOut = NoOut
    /\ NoExtraction
    /\ FoldersAdded

CallCheckSizeAndFrame ==
    /\ cbPc = "called"
    /\ cbPc' = "returned"
    /\ cbOut' = CheckSizeAndFrame(Metadata(cfg), cbEvent, cbSink)
    /\ UNCHANGED <<watchVars, extractVars, setupVars, cfg, cbEvent, cbSink>>

NextCheck == CallCheckSizeAndFrame

SpecCheck == InitCheck /\ [][NextCheck]_vars

Titles(alerts) == [i \in 1..Len(alerts) |-> alerts[i].title]

FrameType2Name == Metadata(cfg).FrameType2Name

Candidates == Get(FrameType2Name, Get(cbOut.fileAttr, attrFrameType))

IsCandidate(type) == \E i \in 1..Len(Candidates) : Candidates[i] = type

\* Both attribute maps were extracted and the file's frame_type is a key of
\* the mapping.
Compared ==
    /\ cbPc = "returned"
    /\ cbOut.fileAttr # NilAttr
    /\ cbOut.dirAttr # NilAttr
    /\ cbOut.fileAttr.frame_type \in DOMAIN FrameType2Name

C5_CleanMatchIffSizeAndSomeCandidate ==
    Compared =>
        (cbOut.alerts = <<>>
            <=> (/\ cbOut.dirAttr.frame_size = cbOut.fileAttr.frame_size
                 /\ IsCandidate(cbOut.dirAttr.frame_type)))

\* Reached: no alert for a folder whose frame type is the second of two
\* candidates and not the first.
C5_Witness ==
    /\ Compared
    /\ cbOut.alerts = <<>>
    /\ Len(Candidates) >= 2
    /\ cbOut.dirAttr.frame_type = Candidates[2]
    /\ cbOut.dirAttr.frame_type # Candidates[1]

\* "<size> <candidate>", trimmed, for the candidates from the i-th on.
RECURSIVE SuggestionsFrom(_, _)
SuggestionsFrom(size, i) ==
    IF i > Len(Candidates) THEN <<>>
    ELSE <<TrimRight(TrimLeft(size \o <<" ">> \o Candidates[i]))>>
             \o SuggestionsFrom(size, i + 1)

RECURSIVE JoinedWithOr(_)
JoinedWithOr(names) ==
    IF names = <<>> THEN <<>>
    ELSE IF Len(names) = 1 THEN names[1]
    ELSE names[1] \o <<" ", "OR", " ">> \o JoinedWithOr(Tail(names))

\* C6: when the folder's frame_type equals none of the candidates, the one
\* alert is WRONG FOLDER and its suggestion is "<file frame_size>
\* <candidate>" for every candidate in the mapping's order, each trimmed,
\* joined with " OR ".
C6_TypeMismatchSuggestsEveryCandidate ==
    (Compared /\ ~IsCandidate(cbOut.dirAttr.frame_type)) =>
        /\ Titles(cbOut.alerts) = <<"WRONG FOLDER">>
        /\ cbOut.alerts[1].msg.correct =
               JoinedWithOr(SuggestionsFrom(cbOut.fileAttr.frame_size, 1))

\* Reached: frame type and frame size both wrong, three candidates.
C6_Witness ==
    /\ Compared
    /\ ~IsCandidate(cbOut.dirAttr.frame_type)
    /\ cbOut.dirAttr.frame_size # cbOut.fileAttr.frame_size
    /\ Len(Candidates) = 3
    /\ Len(cbOut.alerts) = 1

\* C7: when the folder's frame_size differs from the file's and the folder's
\* frame_type is a candidate, the one alert is WRONG FOLDER and suggests the
\* single name "<file frame_size> <folder frame_type>", trimmed, without
\* any " OR ".
C7_SizeMismatchSuggestsOneName ==
    (/\ Compared
     /\ cbOut.dirAttr.frame_size # cbOut.fileAttr.frame_size
     /\ IsCandidate(cbOut.dirAttr.frame_type)) =>
        /\ Titles(cbOut.alerts) = <<"WRONG FOLDER">>
        /\ cbOut.alerts[1].msg.correct =
               (IF cbOut.dirAttr.frame_type = <<>> THEN cbOut.fileAttr.frame_size
                ELSE cbOut.fileAttr.frame_size \o <<" ">> \o cbOut.dirAttr.frame_type)
        /\ \A i \in 1..Len(cbOut.alerts[1].msg.correct) :
               cbOut.alerts[1].msg.correct[i] # "OR"

\* Reached: the folder has no frame type, which is the candidate, and the
\* wrong size: the suggestion is the file's size alone.
C7_Witness ==
    /\ Compared
    /\ cbOut.dirAttr.frame_size # cbOut.fileAttr.frame_size
    /\ cbOut.dirAttr.frame_type = <<>>
    /\ IsCandidate(<<>>)
    /\ Len(cbOut.alerts) = 1
    /\ cbOut.alerts[1].msg.correct = cbOut.fileAttr.frame_size

\* Both attribute maps were extracted and the file's frame_type is no key of
\* the mapping.
Unknown ==
    /\ cbPc = "returned"
    /\ cbOut.fileAttr # NilAttr
    /\ cbOut.dirAttr # NilAttr
    /\ cbOut.fileAttr.frame_type \notin DOMAIN FrameType2Name

\* C8: when both attribute maps were extracted and the file's frame_type has
\* no entry in the mapping, the one alert is UNKNOWN FRAME TYPE naming the
\* abbreviation; the comparison with the folder's attributes is not made
\* and no WRONG FOLDER alert with a suggestion is raised.
C8_UnknownTypeOnlyReported ==
    Unknown =>
        /\ Titles(cbOut.alerts) = <<"UNKNOWN FRAME TYPE">>
        /\ cbOut.alerts[1].msg = [file |-> cbEvent.Name, type |-> cbOut.fileAttr.frame_type]
        /\ cbOut.steps = <<"file", "folder", "lookup">>

\* Reached: an unknown abbreviation in a folder of another size.
C8_Witness ==
    /\ Unknown
    /\ cbOut.fileAttr.frame_type = <<"zz">>
    /\ cbOut.dirAttr.frame_size # cbOut.fileAttr.frame_size
    /\ Len(cbOut.alerts) = 1

\* The submatches of the file name (extension stripped) under the file-name
\* patterns, and those of the folder name under the folder-name patterns.
FileRegex == JoinPatterns(Metadata(cfg).FileNamePatterns)

FileMatches ==
    FindStringSubmatch(FileRegex, TrimSuffix(Base(cbEvent.Name), Ext(cbEvent.Name)))

FolderRegex == JoinPatterns(Metadata(cfg).FolderNamePatterns)

FolderMatches == FindStringSubmatch(FolderRegex, Base(Dir(cbEvent.Name)))

\* Some group of that name has a submatch that is not empty.
Captured(regex, matches, name) ==
    /\ matches # <<>>
    /\ \E i \in 1..Len(matches) : SubexpNames(regex)[i] = name /\ matches[i] # <<>>

Has1(seq, x) == \E i \in 1..Len(seq) : seq[i] = x

\* C9: when the file name of a create/write event yields no frame_type or no
\* frame_size, the callback raises an INVALID FILE NAME alert and neither
\* looks the frame type up nor compares with the folder: no UNKNOWN FRAME
\* TYPE and no WRONG FOLDER alert follows.
C9_InvalidFileNameStops ==
    (/\ cbPc = "returned"
     /\ HasWrite(cbEvent.Op)
     /\ \/ ~Captured(FileRegex, FileMatches, attrFrameType)
        \/ ~Captured(FileRegex, FileMatches, attrFrameSize)) =>
        /\ cbOut.alerts # <<>>
        /\ cbOut.alerts[1].title = "INVALID FILE NAME"
        /\ ~Has1(Titles(cbOut.alerts), "UNKNOWN FRAME TYPE")
        /\ ~Has1(Titles(cbOut.alerts), "WRONG FOLDER")
        /\ ~Has1(cbOut.steps, "lookup")
        /\ ~Has1(cbOut.steps, "compare")
        /\ cbOut.fileAttr = NilAttr

\* Reached: a file name without frame type, the sink reporting success, in a
\* folder whose attributes were then extracted.
C9_Witness ==
    /\ cbPc = "returned"
    /\ HasWrite(cbEvent.Op)
    /\ ~Captured(FileRegex, FileMatches, attrFrameType)
    /\ ~cbOut.err
    /\ cbOut.dirAttr # NilAttr
    /\ Titles(cbOut.alerts) = <<"INVALID FILE NAME">>

\* C10: whenever getFolderAttributes finds a frame_size the returned map has
\* both keys, with frame_type the empty string if no frame_type group
\* captured anything; whenever it finds none it returns no map and raises
\* an INVALID FOLDER NAME alert.
C10_FolderTypeOptionalSizeMandatory ==
    (cbPc = "returned" /\ Has1(cbOut.steps, "folder")) =>
        IF Captured(FolderRegex, FolderMatches, attrFrameSize)
          THEN /\ cbOut.dirAttr # NilAttr
               /\ DOMAIN cbOut.dirAttr = {attrFrameSize, attrFrameType}
               /\ ~Captured(FolderRegex, FolderMatches, attrFrameType)
                      => cbOut.dirAttr.frame_type = <<>>
          ELSE /\ cbOut.dirAttr = NilAttr
               /\ cbOut.alerts # <<>>
               /\ cbOut.alerts[Len(cbOut.alerts)].title = "INVALID FOLDER NAME"

\* Reached: a folder name with a size and no frame type, its map returned
\* with the empty frame type, and no alert.
C10_Witness ==
    /\ cbPc = "returned"
    /\ Has1(cbOut.steps, "folder")
    /\ Captured(FolderRegex, FolderMatches, attrFrameSize)
    /\ ~Captured(FolderRegex, FolderMatches, attrFrameType)
    /\ cbOut.dirAttr = [frame_size |-> <<"11", "x", "14">>, frame_type |-> <<>>]
    /\ cbOut.alerts = <<>>

(***************************************************************************)
(* The extraction functions on their own: one call of getFileAttributes or *)
(* of getFolderAttributes with a path, a pattern list and a sink.          *)
(***************************************************************************)
\* ^(?P<frame_type>[^_]+)_(?P<frame_size>[^_]+)$
UnderscorePatterns ==
    << Cat(<<Bol, Grp(attrFrameType, Segment), Lit("_"), Grp(attrFrameSize, Segment), Eol>>) >>

\* (?P<frame_type>framed) and (?P<frame_size>\d+x\d+), neither anchored.
LoosePatterns ==
    << Grp(attrFrameType, Lit("framed")), Grp(attrFrameSize, SizeToken) >>

PatternListNames == {"folder", "file", "underscore", "loose"}

PatternList(n) ==
    CASE n = "folder" -> FolderNamePatterns
      [] n = "file" -> FileNamePatterns
      [] n = "underscore" -> UnderscorePatterns
      [] OTHER -> LoosePatterns

ExtractNames ==
    FolderNames \cup FileNames \cup
    { <<"framed", " ", "11", "x", "14">>,
      <<"gray", " ", "framed", " ", "9", "pc", " ", "12", "x", "12">>,
      <<"wood", " ", "12", "x", "12">>,
      <<"wood", " ", "3", "pc", " ", "11", "x", "14">>,
      <<"wood", " ", "vert", " ", "11", "x", "14">>,
      <<"11", "x", "14", " ", "floating", " ", "gold", " ", "framed">>,
      <<"11", "x", "14", " ", "framed", " ", "2", "pc">>,
      <<"11", "X", "14">>,
      <<"fr", "_", "11", "x", "14">>,
      <<" ", "fr", " ", "_", " ", "11", "x", "14">>,
      <<" ", "_", "11", "x", "14">>,
      <<"fr", "_", " ">> }

ExtractPaths == ExtractNames \cup {<<"w", "/">> \o n : n \in ExtractNames}

InitExtract ==
    /\ InitWatcher
    /\ cfg = "yaml"
    /\ cbEvent = [Name |-> <<>>, Op |-> 0]
    /\ cbSink = <<>>
    /\ cbPc = "none"
    /\ cbOut = NoOut
    /\ exFn \in {"file", "folder"}
    /\ exPath \in ExtractPaths
    /\ exPats \in PatternListNames
    /\ exSink \in BOOLEAN
    /\ exPc = "called"
    /\ exOut = [attr |-> NilAttr, err |-> FALSE, alerts |-> <<>>]
    /\ FoldersAdded

CallGetFileAttributes ==
    /\ exPc = "called"
    /\ exFn = "file"
    /\ exPc' = "returned"
    /\ exOut' = getFileAttributes(exPath, PatternList(exPats), <<exSink>>, <<>>)
    /\ UNCHANGED <<watchVars, checkVars, setupVars, exFn, exPath, exPats, exSink>>

CallGetFolderAttributes ==
    /\ exPc = "called"
    /\ exFn = "folder"
    /\ exPc' = "returned"
    /\ exOut' = getFolderAttributes(exPath, PatternList(exPats), <<exSink>>, <<>>)
    /\ UNCHANGED <<watchVars, checkVars, setupVars, exFn, exPath, exPats, exSink>>

NextExtract == CallGetFileAttributes \/ CallGetFolderAttributes

SpecExtract == InitExtract /\ [][NextExtract]_vars

\* The name the extraction looks at: the base name, for a file without its
\* extension.
ExtractedName ==
    IF exFn = "file" THEN TrimSuffix(Base(exPath), Ext(exPath)) ELSE Base(exPath)

\* The pattern matches the name when compiled on its own.
MatchesAlone(pattern, name) == FindStringSubmatch(pattern, name) # <<>>

\* A WxH token.
IsSize(s) == Len(s) = 3 /\ s[1] \in Digits /\ s[2] = "x" /\ s[3] \in Digits

\* The WxH token at the start or at the end of a folder name, and the rest
\* of the name without the space that separates the two.
SizeFirst(n) == Len(n) >= 3 /\ IsSize(SubSeq(n, 1, 3))

NameSize(n) == IF SizeFirst(n) THEN SubSeq(n, 1, 3) ELSE SubSeq(n, Len(n) - 2, Len(n))

NameType(n) ==
    IF Len(n) <= 4 THEN <<>>
    ELSE IF SizeFirst(n) THEN SubSeq(n, 5, Len(n))
    ELSE SubSeq(n, 1, Len(n) - 4)

\* C11: for every folder name that matches one of the four configured
\* folder-name patterns, getFolderAttributes returns no error and raises no
\* alert, its frame_size is the WxH token of the name and its frame_type
\* the type phrase of the name, the empty string when there is none.
C11_ConfiguredFolderNamesExtracted ==
    (/\ exPc = "returned"
     /\ exFn = "folder"
     /\ exPats = "folder"
     /\ \E k \in 1..Len(FolderNamePatterns) :
            MatchesAlone(FolderNamePatterns[k], ExtractedName)) =>
        /\ ~exOut.err
        /\ exOut.alerts = <<>>
        /\ exOut.attr = [frame_size |-> NameSize(ExtractedName),
                         frame_type |-> NameType(ExtractedName)]

\* Reached: a folder name of the third pattern with a piece count, given
\* with its parent directory, and its attributes.
C11_Witness ==
    /\ exPc = "returned"
    /\ exFn = "folder"
    /\ exPats = "folder"
    /\ exPath = <<"w", "/", "gray", " ", "framed", " ", "9", "pc", " ", "12", "x", "12">>
    /\ MatchesAlone(FolderNamePatterns[3], ExtractedName)
    /\ exOut.attr = [frame_size |-> <<"12", "x", "12">>,
                     frame_type |-> <<"gray", " ", "framed", " ", "9", "pc">>]

\* The submatches of the extracted name under the joined pattern list.
ExtractRegex == JoinPatterns(PatternList(exPats))

ExtractMatches == FindStringSubmatch(ExtractRegex, ExtractedName)

OnlyWhitespace(s) == s # <<>> /\ \A i \in 1..Len(s) : IsSpace(s[i])

\* Some group of that name captured whitespace only, and none captured
\* anything else.
CapturedOnlyWhitespace(name) ==
    /\ ExtractMatches # <<>>
    /\ \E i \in 1..Len(ExtractMatches) :
           SubexpNames(ExtractRegex)[i] = name /\ OnlyWhitespace(ExtractMatches[i])
    /\ \A i \in 1..Len(ExtractMatches) :
           SubexpNames(ExtractRegex)[i] = name =>
               (ExtractMatches[i] = <<>> \/ OnlyWhitespace(ExtractMatches[i]))

\* C12 as claimed: a named group that captured only whitespace is treated
\* as absent: for a file name the extraction fails with the INVALID FILE
\* NAME alert, for a folder name with such a frame_size it fails with the
\* INVALID FOLDER NAME alert.
C12_WhitespaceCaptureIsAbsent ==
    exPc = "returned" =>
        /\ (exFn = "file" /\ (\/ CapturedOnlyWhitespace(attrFrameType)
                              \/ CapturedOnlyWhitespace(attrFrameSize))) =>
               (exOut.attr = NilAttr /\ Titles(exOut.alerts) = <<"INVALID FILE NAME">>)
        /\ (exFn = "folder" /\ CapturedOnlyWhitespace(attrFrameSize)) =>
               (exOut.attr = NilAttr /\ Titles(exOut.alerts) = <<"INVALID FOLDER NAME">>)

\* The index of the first pattern of the list, in list order, that matches
\* the name on its own; 0 when none does.
RECURSIVE FirstMatchingFrom(_, _, _)
FirstMatchingFrom(patterns, name, k) ==
    IF k > Len(patterns) THEN 0
    ELSE IF MatchesAlone(patterns[k], name) THEN k
    ELSE FirstMatchingFrom(patterns, name, k + 1)

FirstMatching == FirstMatchingFrom(PatternList(exPats), ExtractedName, 1)

\* The attributes the first matching pattern gives when it is the only
\* pattern of the list.
FirstMatchAttr ==
    IF FirstMatching = 0 THEN NilAttr
    ELSE IF exFn = "file"
      THEN getFileAttributes(exPath, <<PatternList(exPats)[FirstMatching]>>, <<exSink>>, <<>>).attr
    ELSE getFolderAttributes(exPath, <<PatternList(exPats)[FirstMatching]>>, <<exSink>>, <<>>).attr

\* C13 as claimed: the attributes returned for an ordered pattern list are
\* exactly those of the first pattern, in list order, that matches the name;
\* no later pattern contributes or overrides a value.
C13_FirstMatchingPatternWins == exPc = "returned" => exOut.attr = FirstMatchAttr

(***************************************************************************)
(* The program cancelled while it runs: watch() closes the watcher only    *)
(* after Watch has returned, so the channels stay open.  A callback that   *)
(* was called returns, and the select, which chooses among its ready cases *)
(* at random, does not pass over the cancellation for ever.                *)
(***************************************************************************)
NextCancel ==
    \/ watchAddCallbacks
    \/ watchWatch
    \/ WatchCtxDone
    \/ WatchEvent
    \/ WatchCallback
    \/ WatchError
    \/ \E e \in RunEvents : Emit(e.Name, e.Op)
    \/ EmitError
    \/ Cancel

SpecCancel ==
    /\ Init
    /\ [][NextCancel]_vars
    /\ WF_vars(WatchCallback)
    /\ SF_vars(WatchCtxDone)

(***************************************************************************)
(* The program whose notification layer closes its channels while Watch    *)
(* runs, without cancellation.  Watch takes what is offered on w.Events, a *)
(* callback that was called returns, and the select does not pass over the *)
(* closed channel for ever.                                                *)
(***************************************************************************)
NextClose ==
    \/ watchAddCallbacks
    \/ watchWatch
    \/ WatchEventsClosed
    \/ WatchEvent
    \/ WatchCallback
    \/ WatchError
    \/ WatchErrorsClosed
    \/ \E e \in RunEvents : Emit(e.Name, e.Op)
    \/ EmitError
    \/ CloseEvents
    \/ CloseErrors

SpecClose ==
    /\ Init
    /\ [][NextClose]_vars
    /\ WF_vars(WatchEvent)
    /\ WF_vars(WatchCallback)
    /\ SF_vars(WatchEventsClosed)

(***************************************************************************)
(* Claims about the loop of Watch.                                         *)
(***************************************************************************)
\* The k-th received event was admitted.
Admitted(k) == ~received[k].ignore

\* The callbacks invoked so far for the admitted event in hand are the first
\* ones registered, each once; for an event the loop is through with they
\* are all the registered ones.
InvokedInOrder(k) ==
    IF Handled(k) THEN CallsOf(calls, k) = callbacks
    ELSE CallsOf(calls, k) = SubSeq(callbacks, 1, cbIdx - 1)

\* A step that changes w.callbacks leaves the registered ones in place and
\* puts the new ones behind them.
RegisteredBehind ==
    /\ Len(callbacks') >= Len(callbacks)
    /\ SubSeq(callbacks', 1, Len(callbacks)) = callbacks

\* C14: for every admitted event Watch invokes every registered callback
\* exactly once, one after the other, in the order of w.callbacks, and
\* AddCallbacks keeps w.callbacks in the order of registration, also
\* across several calls.
C14_EveryCallbackOnceInRegistrationOrder ==
    /\ [](\A k \in 1..Len(received) : Admitted(k) => InvokedInOrder(k))
    /\ [][RegisteredBehind]_vars

\* Reached: two callbacks registered by two AddCallbacks calls (no single
\* call registers cb2 before cb1), both invoked in that order for the
\* first event, and the second event admitted with the first callback
\* invoked.
C14_Witness ==
    /\ callbacks = <<"cb2", "cb1">>
    /\ Len(received) = 2
    /\ Admitted(1)
    /\ Admitted(2)
    /\ CallsOf(calls, 1) = <<"cb2", "cb1">>
    /\ CallsOf(calls, 2) = <<"cb2">>
    /\ pc = "callback"

\* Watch has returned only on cancellation or on a closed channel.
ReturnedOnCancelOrClose ==
    pc = "done" =>
        \/ ret = "ctxErr" /\ ctxDone
        \/ ret = "nil" /\ (eventsClosed \/ errorsClosed)

\* The step invokes a callback that returns an error.
CallbackFailed == Len(calls') = Len(calls) + 1 /\ calls'[Len(calls')].err

\* After the step Watch is still running: at the next callback of the event,
\* or back at the select when the callback was the last one.
LoopGoesOn ==
    /\ ret' = "none"
    /\ IF cbIdx < Len(callbacks) THEN pc' = "callback" /\ cbIdx' = cbIdx + 1
       ELSE pc' = "select"

\* C15: a callback that returns an error for an admitted event does not keep
\* the callbacks registered after it from being invoked for that event and
\* does not make Watch return: the loop goes on to the next input.
C15_CallbackErrorContained ==
    /\ [](\A i \in 1..Len(calls) : calls[i].err => InvokedInOrder(calls[i].ev))
    /\ []ReturnedOnCancelOrClose
    /\ [][CallbackFailed => LoopGoesOn]_vars

\* Reached: the first registered callback returned an error for the first
\* event, the second was invoked all the same, and a second event was
\* received and dispatched to both after that.
C15_Witness ==
    /\ callbacks = <<"cb2", "cb1">>
    /\ Len(received) = 2
    /\ Len(calls) = 4
    /\ calls[1].err
    /\ calls[1].ev = 1
    /\ CallsOf(calls, 1) = <<"cb2", "cb1">>
    /\ CallsOf(calls, 2) = <<"cb2", "cb1">>
    /\ pc = "select"
    /\ ret = "none"

\* C16: once the context is cancelled Watch eventually returns, given that
\* the callback in progress returns, whatever events arrive meanwhile, and
\* it returns the context's error, not nil.
C16_CancelledWatchReturnsCtxErr == ctxDone ~> (pc = "done" /\ ret = "ctxErr")

\* Reached: Watch returned the context's error with an event still offered
\* on the channel, after it had received another.
C16_Witness ==
    /\ ctxDone
    /\ pc = "done"
    /\ ret = "ctxErr"
    /\ Events # <<>>
    /\ Len(received) >= 1

\* C17 as claimed: after the context is cancelled Watch takes no further raw
\* event to the callbacks; only the event in dispatch at that moment is
\* finished.
C17_NoNewDispatchAfterCancel ==
    [][(ctxDone /\ pc = "select") => pc' # "callback"]_vars

\* C18: when w.Events is closed Watch returns nil, and once the closed
\* channel is all the select can read from w.Events, or Watch has returned,
\* no callback is invoked any more.
C18_ClosedEventsReturnNil ==
    /\ eventsClosed ~> (pc = "done" /\ ret = "nil")
    /\ [][(eventsClosed /\ Events = <<>> /\ pc \in {"select", "done"}) => calls' = calls]_vars

\* Reached: Watch dispatched an event, the event channel (and not the error
\* channel) was closed, and Watch returned nil.
C18_Witness ==
    /\ eventsClosed
    /\ ~errorsClosed
    /\ pc = "done"
    /\ ret = "nil"
    /\ Len(received) >= 1
    /\ Len(calls) >= 1

\* The step takes an error from w.Errors.
ErrorTaken == Errors' < Errors

\* C19: an error taken from w.Errors does not make Watch return and invokes
\* no callback: Watch waits in its select again, and after any number of
\* errors every admitted event still goes to all callbacks.
C19_WatcherErrorContained ==
    /\ [][ErrorTaken => (pc' = "select" /\ ret' = "none" /\ calls' = calls)]_vars
    /\ [](errorsSent > Errors =>
            /\ ReturnedOnCancelOrClose
            /\ \A k \in 1..Len(received) : Admitted(k) => InvokedInOrder(k))

\* Reached: every error was taken before the first event was received, and
\* that event is with the callbacks.
C19_Witness ==
    /\ errorsSent = MaxErrors
    /\ Errors = 0
    /\ Len(received) = 1
    /\ Admitted(1)
    /\ pc = "callback"
    /\ CallsOf(calls, 1) = <<"cb1">>
    /\ callbacks = <<"cb1", "cb2">>
    /\ ~ctxDone

(***************************************************************************)
(* watch(): the configuration is validated, the watcher made, the folders  *)
(* to watch found and added, the callback registered and Watch called.     *)
(* The file system is a directory w with the folders 11x14 and 12x12 and   *)
(* the file readme.txt, and no directory v.                                *)
(***************************************************************************)
ErrBadPattern == "syntax error in pattern"

\* filepath.Glob: the matches in lexical order, or ErrBadPattern.
Glob(pattern) ==
    CASE pattern = "w/*" -> <<"w/11x14", "w/12x12", "w/readme.txt">>
      [] pattern = "w/1*" -> <<"w/11x14", "w/12x12">>
      [] pattern = "w/11x14" -> <<"w/11x14">>
      [] pattern = "w/readme.txt" -> <<"w/readme.txt">>
      [] pattern = "[" -> ErrBadPattern
      [] OTHER -> <<>>

\* os.Stat(sd) succeeds and info.IsDir().
IsDir(sd) == sd \in {"w/11x14", "w/12x12"}

IncludeLists ==
    {<<>>, <<"w/*">>, <<"v/*">>, <<"w/11x14">>, <<"w/readme.txt">>, <<"[">>,
     <<"w/11x14", "w/1*">>, <<"v/*", "w/*">>}

ExcludeLists == {<<>>, <<"w/11x14">>, <<"w/12x12">>, <<"w/11x14", "w/12x12">>}

WatcherConfigs == [IncludeFolders : IncludeLists, ExcludeFolders : ExcludeLists]

\* Metadata.Validate: the patterns are compiled expressions here, so the
\* two regexp.Compile calls find nothing; the second length test is the
\* one of the code, on the folder-name patterns again.
MetadataValidate(m) ==
    IF Len(m.FolderNamePatterns) = 0 THEN "folder name pattern must be specified"
    ELSE IF Len(m.FolderNamePatterns) = 0 THEN "file name pattern must be specified"
    ELSE IF DOMAIN m.FrameType2Name = {} THEN "frame_type_mapping must be specified"
    ELSE "none"

\* watcher.Config.Validate
WatcherValidate(w) ==
    IF Len(w.IncludeFolders) = 0 THEN "no folders to watch specified" ELSE "none"

\* Config.Validate
Validate(m, w) ==
    IF MetadataValidate(m) # "none" THEN MetadataValidate(m) ELSE WatcherValidate(w)

InList(x, list) == \E i \in 1..Len(list) : list[i] = x

\* The loop over subDirs of getFoldersToWatch from the i-th on: what is not
\* a directory is skipped, a directory of the exclude list sets shouldExclude,
\* and a directory is appended unless shouldExclude is set.
RECURSIVE scanSubDirs(_, _, _, _, _)
scanSubDirs(subDirs, i, shouldExclude, excludeFolders, watched) ==
    IF i > Len(subDirs) THEN watched
    ELSE IF ~IsDir(subDirs[i])
      THEN scanSubDirs(subDirs, i + 1, shouldExclude, excludeFolders, watched)
    ELSE LET exclude == shouldExclude \/ InList(subDirs[i], excludeFolders)
         IN  scanSubDirs(subDirs, i + 1, exclude, excludeFolders,
                         IF exclude THEN watched ELSE Append(watched, subDirs[i]))

\* The loop over cfg.IncludeFolders from the i-th on.
RECURSIVE scanTopDirs(_, _, _)
scanTopDirs(w, i, watched) ==
    IF i > Len(w.IncludeFolders) THEN [list |-> watched, err |-> "none"]
    ELSE IF Glob(w.IncludeFolders[i]) = ErrBadPattern
      THEN [list |-> <<>>, err |-> "get sub directories"]
    ELSE scanTopDirs(w, i + 1,
             scanSubDirs(Glob(w.IncludeFolders[i]), 1, FALSE, w.ExcludeFolders, watched))

\* getFoldersToWatch without the test for an empty list.
getFoldersToWatch_AllowEmpty(w) == scanTopDirs(w, 1, <<>>)

getFoldersToWatch(w) ==
    LET r == scanTopDirs(w, 1, <<>>)
    IN  IF r.err = "none" /\ Len(r.list) = 0
          THEN [list |-> <<>>, err |-> "no folders to watch under given config"]
        ELSE r

\* watch() up to getFoldersToWatch; fsnotify.NewWatcher succeeds or not.
watchGetFolders(newOk) ==
    /\ wPc = "start"
    /\ LET v == Validate(Metadata(cfg), watcherCfg)
           r == getFoldersToWatch(watcherCfg)
       IN  IF v # "none"
             THEN /\ setupErr' = v
                  /\ wPc' = "failed"
                  /\ watchList' = watchList
           ELSE IF ~newOk
             THEN /\ setupErr' = "create watcher"
                  /\ wPc' = "failed"
                  /\ watchList' = watchList
           ELSE /\ setupErr' = r.err
                /\ wPc' = IF r.err = "none" THEN "folders" ELSE "failed"
                /\ watchList' = r.list
    /\ UNCHANGED <<watchVars, checkVars, extractVars, watcherCfg, added>>

\* FSNotifyWatcher.AddFolders: the folders are added in order up to the
\* first one that w.Add refuses (failAt; 0 when none is refused).
AddFolders(folderPaths, failAt) ==
    /\ failAt \in 0..Len(folderPaths)
    /\ added' = added \o (IF failAt = 0 THEN folderPaths
                          ELSE SubSeq(folderPaths, 1, failAt - 1))
    /\ UNCHANGED <<watchVars, checkVars, extractVars, watcherCfg, watchList>>

watchAddFolders(failAt) ==
    /\ wPc = "folders"
    /\ AddFolders(watchList, failAt)
    /\ wPc' = IF failAt = 0 THEN "added" ELSE "failed"
    /\ setupErr' = IF failAt = 0 THEN "none" ELSE "failed to add folders to watch list"

\* The callbacks slice of watch(), and slices with a nil callback, which
\* watch() as written does not build, for the test in AddCallbacks.
SetupCallbackLists == {<<"cb1">>, <<Nil>>, <<"cb1", Nil>>}

InitSetup ==
    /\ InitWatcher
    /\ cbEvent = [Name |-> <<>>, Op |-> 0]
    /\ cbSink = <<>>
    /\ cbPc = "none"
    /\ cbOut = NoOut
    /\ NoExtraction
    /\ cfg \in Configs \cup IncompleteConfigs
    /\ watcherCfg \in WatcherConfigs
    /\ wPc = "start"
    /\ watchList = <<>>
    /\ added = <<>>
    /\ setupErr = "none"

NextSetup ==
    \/ \E newOk \in BOOLEAN : watchGetFolders(newOk)
    \/ \E failAt \in 0..Len(watchList) : watchAddFolders(failAt)
    \/ \E cbs \in SetupCallbackLists : watchAddCallbacksWith(cbs)
    \/ watchWatch

SpecSetup == InitSetup /\ [][NextSetup]_vars

\* C20: Watch is called only when at least one directory was added to the
\* watcher and every registered callback is non-nil; after a setup that
\* found no folder to watch, or met a nil callback, watch() has returned an
\* error and Watch is not called.
C20_WatchOnlyAfterFoldersAndCallbacks ==
    /\ pc # "idle" =>
          /\ Len(added) >= 1
          /\ added = watchList
          /\ callbacks # <<>>
          /\ \A i \in 1..Len(callbacks) : callbacks[i] # Nil
    /\ (wPc # "start" /\ watchList = <<>>) => (setupErr # "none" /\ pc = "idle")
    /\ addErr => pc = "idle"

\* Reached: Watch called with the two folders of w added and the callback
\* registered.
C20_Witness ==
    /\ pc = "select"
    /\ added = <<"w/11x14", "w/12x12">>
    /\ callbacks = <<"cb1">>
    /\ setupErr = "none"

\* C21 as claimed: a configuration with no folder-name pattern, no file-name
\* pattern or no frame-type mapping is rejected by Validate: watch() has
\* returned the error and Watch is not called.
C21_IncompleteMetadataRejected ==
    (/\ wPc # "start"
     /\ \/ Len(Metadata(cfg).FolderNamePatterns) = 0
        \/ Len(Metadata(cfg).FileNamePatterns) = 0
        \/ DOMAIN Metadata(cfg).FrameType2Name = {}) =>
        /\ wPc = "failed"
        /\ setupErr \notin {"none", "create watcher"}
        /\ pc = "idle"

\* The directories of a glob expansion, from the i-th on, that are not in
\* the exclude list.
RECURSIVE KeptDirs(_, _, _)
KeptDirs(subDirs, i, excludeFolders) ==
    IF i > Len(subDirs) THEN <<>>
    ELSE (IF IsDir(subDirs[i]) /\ ~InList(subDirs[i], excludeFolders)
            THEN <<subDirs[i]>> ELSE <<>>)
         \o KeptDirs(subDirs, i + 1, excludeFolders)

\* Those of every include pattern from the i-th on, in order.
RECURSIVE IncludedMinusExcluded(_, _)
IncludedMinusExcluded(w, i) ==
    IF i > Len(w.IncludeFolders) THEN <<>>
    ELSE KeptDirs(Glob(w.IncludeFolders[i]), 1, w.ExcludeFolders)
         \o IncludedMinusExcluded(w, i + 1)

\* C22 as claimed: getFoldersToWatch returns exactly the directories of the
\* glob expansions of the include patterns, in order, without those of the
\* exclude list, wherever the excluded ones fall in an expansion; it
\* reports that there is no folder to watch only when none is left.
C22_WatchListIsIncludedMinusExcluded ==
    /\ wPc \in {"folders", "added"} => watchList = IncludedMinusExcluded(watcherCfg, 1)
    /\ setupErr = "no folders to watch under given config"
          => IncludedMinusExcluded(watcherCfg, 1) = <<>>

\* C23: for an event whose operation has neither the create nor the write
\* bit the callback extracts nothing, raises no alert and returns no error.
C23_OtherOperationsIgnored ==
    (cbPc = "returned" /\ ~HasWrite(cbEvent.Op)) =>
        /\ cbOut.steps = <<>>
        /\ cbOut.fileAttr = NilAttr
        /\ cbOut.dirAttr = NilAttr
        /\ cbOut.alerts = <<>>
        /\ ~cbOut.err

\* Reached: a remove of a file whose name and folder would both be reported
\* for a create, with a sink that fails at every alert.
C23_Witness ==
    /\ cbPc = "returned"
    /\ cbEvent = [Name |-> <<"w", "/", "misc", "/", "notes">>, Op |-> RemoveOp]
    /\ cbSink = <<TRUE, TRUE>>
    /\ cbOut = NoOut

\* The latest event before the k-th that was received for the same path;
\* 0 when there is none.
RECURSIVE PrevOnPath(_, _)
PrevOnPath(k, m) ==
    IF m = 0 THEN 0
    ELSE IF received[m].Name = received[k].Name THEN m
    ELSE PrevOnPath(k, m - 1)

\* The k-th event goes on a run of create/write events of its path: the
\* event before it on the path is a create/write event too and less than a
\* second older.
ContinuesRun(k) ==
    LET m == PrevOnPath(k, k - 1)
    IN  /\ m # 0
        /\ HasWrite(received[m].Op)
        /\ HasWrite(received[k].Op)
        /\ received[k].time - received[m].time < Second

\* C24: a suppressed event replaces the stored record, so the window slides:
\* every event that goes on a run of create/write events of one path, each
\* less than a second after the one before, is withheld, however long the
\* run lasts, and the event just received is the stored record of its path.
C24_WindowSlides ==
    /\ \A k \in 1..Len(received) : ContinuesRun(k) => Withheld(k)
    /\ (received # <<>> /\ now - received[Len(received)].time <= PurgeAge) =>
          LET last == received[Len(received)]
          IN  /\ last.Name \in DOMAIN eventLog
              /\ eventLog[last.Name] =
                     [Name |-> last.Name, Op |-> last.Op, time |-> last.time]

\* Reached: three writes of one path half a second apart; the first is
\* dispatched, the second and the third, a full second after the first,
\* are withheld.
C24_Witness ==
    /\ Len(received) = 3
    /\ \A k \in 1..3 : received[k].Name = "p1" /\ received[k].Op = WriteOp
    /\ received[2].time - received[1].time = Second \div 2
    /\ received[3].time - received[1].time = Second
    /\ CallsOf(calls, 1) = <<"cb1">>
    /\ Withheld(2)
    /\ Withheld(3)
    /\ pc = "select"

\* The latest of the first m received events that is for path p and, when
\* admittedOnly, was admitted; 0 when there is none.
RECURSIVE LatestOnPath(_, _, _)
LatestOnPath(p, m, admittedOnly) ==
    IF m = 0 THEN 0
    ELSE IF received[m].Name = p /\ (~admittedOnly \/ Admitted(m)) THEN m
    ELSE LatestOnPath(p, m - 1, admittedOnly)

\* The stored record of path p is the k-th received event with its time.
StoredIs(p, k) ==
    /\ k # 0
    /\ eventLog[p] = [Name |-> p, Op |-> received[k].Op, time |-> received[k].time]

\* C25 as claimed: the record stored for a path is the most recently
\* admitted event of that path with its time.
C25_StoredIsLastAdmitted ==
    \A p \in DOMAIN eventLog : StoredIs(p, LatestOnPath(p, Len(received), TRUE))

\* C25 amended: the log holds one record per path, and the record stored for
\* a path is the most recently received event of that path, admitted or
\* suppressed, with the time of its receipt.
C25_StoredIsLastReceived ==
    \A p \in DOMAIN eventLog :
        /\ eventLog[p].Name = p
        /\ StoredIs(p, LatestOnPath(p, Len(received), FALSE))

\* Reached: records for two paths, the one of p1 being a suppressed event
\* that came after the admitted one.
C25_Witness ==
    /\ DOMAIN eventLog = {"p1", "p2"}
    /\ LatestOnPath("p1", Len(received), FALSE) = 2
    /\ LatestOnPath("p1", Len(received), TRUE) = 1
    /\ eventLog["p1"].time = received[2].time
    /\ received[2].time > received[1].time

\* The loop of Watch with the scheduling the Go runtime gives it: a ready
\* receive is taken and a started callback returns.  Nothing forces the
\* notification layer to deliver a further event, nor the clock to be read.
SpecPurge ==
    /\ Init
    /\ [][Next]_vars
    /\ WF_vars(watchAddCallbacks)
    /\ WF_vars(watchWatch)
    /\ WF_vars(WatchEvent)
    /\ WF_vars(WatchCallback)

\* A record of path p that the purge would remove at the present time.
Stale(p) == p \in DOMAIN eventLog /\ p \in purge(eventLog, now)

\* C26: a stored record older than 30 seconds is eventually removed from
\* the debounce log, also when no further raw event or error arrives.
C26_StaleRecordEventuallyPurged ==
    \A p \in Paths : Stale(p) ~> (p \notin DOMAIN eventLog)

\* The log of the loop without lines 123-133 after the first k received
\* events: every received event is stored under its path, nothing is removed.
RECURSIVE LogWithoutPurge(_)
LogWithoutPurge(k) ==
    IF k = 0 THEN [name \in {} |-> NoEvent]
    ELSE LET log == LogWithoutPurge(k - 1)
             e == received[k]
         IN  [name \in DOMAIN log \cup {e.Name} |->
                 IF name = e.Name
                    THEN [Name |-> e.Name, Op |-> e.Op, time |-> e.time]
                    ELSE log[name]]

\* The decision of the loop without the purge for the k-th received event.
IgnoredWithoutPurge(k) ==
    LET log == LogWithoutPurge(k - 1)
        e == received[k]
        ne == [Name |-> e.Name, Op |-> e.Op, time |-> e.time]
    IN  IF e.Name \in DOMAIN log THEN IsSameWriteEventAs(ne, log[e.Name]) ELSE FALSE

\* C27: the purge never changes a dispatch decision: every received event
\* is suppressed by the loop exactly when the loop without the purge
\* suppresses it, and the events handed to the callbacks are the same.
C27_PurgeChangesNoDecision ==
    \A k \in 1..Len(received) :
        /\ received[k].ignore = IgnoredWithoutPurge(k)
        /\ (Handled(k) /\ callbacks # <<>>) =>
               (Dispatched(k) <=> ~IgnoredWithoutPurge(k))

\* Reached: the record of a path was purged, and a later create/write event
\* of that path, which the loop without the purge compares with the old
\* record, has been dispatched.
C27_Witness ==
    \E k \in 1..Len(received) :
        /\ PrevOnPath(k, k - 1) # 0
        /\ ~received[k].ok
        /\ HasWrite(received[k].Op)
        /\ HasWrite(received[PrevOnPath(k, k - 1)].Op)
        /\ Dispatched(k)
        /\ callbacks # <<>>

\* A step taken while a callback of the event in hand has not returned
\* reads no event and leaves the debounce log alone (the purge at the top of
\* the next iteration comes after the last callback has returned), and a
\* callback it starts is the next callback of the event in hand.
OneEventAtATime ==
    pc = "callback" =>
        /\ received' = received
        /\ newEvent' = newEvent
        /\ eventLog' = eventLog \/ (cbIdx = Len(callbacks) /\ pc' = "select")
        /\ calls' # calls =>
               /\ Len(calls') = Len(calls) + 1
               /\ calls'[Len(calls')].ev = Len(received)
               /\ calls'[Len(calls')].cb = callbacks[cbIdx]

\* The callbacks were invoked for admitted events only, in the order in
\* which the events were received.
CallsInAdmissionOrder ==
    /\ \A i \in 1..Len(calls) : Admitted(calls[i].ev)
    /\ \A i, j \in 1..Len(calls) : i < j => calls[i].ev <= calls[j].ev

\* C28: Watch handles one raw event to completion before taking the next:
\* while a callback of an admitted event has not returned it reads no other
\* event, does not touch the debounce log and starts no callback for a later
\* event, so the callbacks occur in the order of admission.
C28_OneEventToCompletion ==
    /\ [][OneEventAtATime]_vars
    /\ []CallsInAdmissionOrder

\* Reached: both callbacks ran for the first event, a callback of the second
\* event is running and a third event is waiting to be read.
C28_Witness ==
    /\ pc = "callback"
    /\ Len(callbacks) = 2
    /\ Len(received) = 2
    /\ CallsOf(calls, 1) = callbacks
    /\ Len(CallsOf(calls, 2)) = 1
    /\ Events # <<>>

\* The notification layer offers a raw event on w.Events, as Emit does; the
\* time of the emission is kept.
EmitAt(name, op) ==
    /\ pc \notin {"idle", "done"}
    /\ ~eventsClosed
    /\ emitted < MaxEvents
    /\ Events = <<>>
    /\ Events' = Append(Events, [Name |-> name, Op |-> op])
    /\ emitted' = emitted + 1
    /\ sentAt' = Append(sentAt, now)
    /\ UNCHANGED <<checkVars, extractVars, setupVars, pc, now, ticks, eventsClosed,
                   Errors, errorsSent, errorsClosed, ctxDone, callbacks, addErr,
                   eventLog, newEvent, cbIdx, ret, received, calls>>

ArrivalEvents == {[Name |-> "p1", Op |-> WriteOp], [Name |-> "p2", Op |-> WriteOp]}

\* A running callback takes time d to return.  (showAlert blocks until the
\* dialog is dismissed.)
CallbackTakes(d) == pc = "callback" /\ Tick(d)

\* The loop takes a ready event at once: the clock advances only while a
\* callback is running.
NextArrival ==
    \/ watchAddCallbacks
    \/ watchWatch
    \/ WatchEvent
    \/ WatchCallback
    \/ \E d \in Jumps : CallbackTakes(d)
    \/ \E e \in ArrivalEvents : EmitAt(e.Name, e.Op)

SpecArrival == Init /\ [][NextArrival]_vars

\* C29: two write events of one path emitted less than 1 second apart, with
\* no other event of the path between them, are collapsed into one dispatch
\* (the later one is suppressed), however long the callbacks of the first
\* one run.
C29_RapidEmittedPairCollapsed ==
    \A k \in 1..Len(received) :
        LET j == PrevOnPath(k, k - 1)
        IN  (/\ j # 0
             /\ HasWrite(received[j].Op)
             /\ HasWrite(received[k].Op)
             /\ sentAt[k] - sentAt[j] < Second) => received[k].ignore

\* A step that receives a raw event for path P leaves the record of every
\* other path q as it was; a record of q that is gone after the step was
\* older than 30 seconds and was removed by the purge at the top of the next
\* iteration (lines 123-133), not by the handling of the event.
OtherRecordsKept ==
    Len(received') = Len(received) + 1 =>
        LET P == received'[Len(received')].Name
        IN  \A q \in Paths \ {P} :
                /\ q \in DOMAIN eventLog' =>
                       q \in DOMAIN eventLog /\ eventLog'[q] = eventLog[q]
                /\ (q \in DOMAIN eventLog /\ q \notin DOMAIN eventLog') =>
                       q \in purge(eventLog, now)

\* The decision for the k-th received event computed from the events of its
\* own path alone: it is suppressed when the event before it on the path
\* makes a write pair with it less than a second older.
IgnoredOnOwnPath(k) ==
    LET j == PrevOnPath(k, k - 1)
        e == received[k]
    IN  /\ j # 0
        /\ IsSameWriteEventAs([Name |-> e.Name, Op |-> e.Op, time |-> e.time],
               [Name |-> e.Name, Op |-> received[j].Op, time |-> received[j].time])

\* C30: handling a raw event for path P reads and writes only P's record:
\* the record of every other path is left unchanged, and whether P's event
\* is dispatched is determined by the events received for P alone.
C30_OnlyOwnPathRecord ==
    /\ [][OtherRecordsKept]_vars
    /\ [](\A k \in 1..Len(received) :
             /\ received[k].ignore = IgnoredOnOwnPath(k)
             /\ received[k].ok => received[k].prev.Name = received[k].Name)

\* Reached: a write of p1, an event of p2 and a second write of p1 within a
\* second of the first were received; the second write was suppressed and
\* the record of p2 is the one stored when its event was received.
C30_Witness ==
    /\ Len(received) = 3
    /\ received[1].Name = "p1" /\ received[2].Name = "p2" /\ received[3].Name = "p1"
    /\ received[3].ignore
    /\ DOMAIN eventLog = {"p1", "p2"}
    /\ eventLog["p2"] = [Name |-> "p2", Op |-> received[2].Op, time |-> received[2].time]
    /\ eventLog["p1"].time = received[3].time

\* Watch with an error channel that may be closed while the event channel
\* stays open and the context is never cancelled.
NextErrClose ==
    \/ watchAddCallbacks
    \/ watchWatch
    \/ WatchEvent
    \/ WatchCallback
    \/ WatchError
    \/ WatchErrorsClosed
    \/ \E e \in RunEvents : Emit(e.Name, e.Op)
    \/ EmitError
    \/ CloseErrors

\* A started callback returns; select chooses at random among the ready
\* cases, so a case that is ready again and again is taken.
SpecErrClose ==
    /\ Init
    /\ [][NextErrClose]_vars
    /\ WF_vars(WatchCallback)
    /\ SF_vars(WatchError)
    /\ SF_vars(WatchErrorsClosed)

\* C31: once the error channel is closed Watch returns nil, with the event
\* channel open and no cancellation, and after it has returned no event is
\* read and no callback is invoked, whatever is still pending.
C31_ClosedErrorsReturnNil ==
    /\ errorsClosed ~> (pc = "done" /\ ret = "nil")
    /\ [](~eventsClosed /\ ~ctxDone)
    /\ [][pc = "done" => (calls' = calls /\ received' = received)]_vars

\* Reached: Watch has returned nil on the closed error channel after it
\* dispatched an event, while another event is pending on the open event
\* channel.
C31_Witness ==
    /\ errorsClosed
    /\ ~eventsClosed
    /\ ~ctxDone
    /\ pc = "done"
    /\ ret = "nil"
    /\ Events # <<>>
    /\ Len(received) >= 1
    /\ Len(calls) >= 1
    /\ emitted > Len(received)

====
